---- MODULE Spec2Model ----
(***************************************************************************)
(* A model of the DASH manifest pipeline and the Widevine licence exchange  *)
(* of StreamingCommunity:                                                   *)
(*   StreamingCommunity/Lib/Downloader/DASH/parser.py                       *)
(*   StreamingCommunity/Lib/Downloader/DASH/cdm_helpher.py                  *)
(*                                                                         *)
(* Three state machines share the module, each with its own variables and  *)
(* its own specifications:                                                  *)
(*   SpecTimeline  SegmentTimelineParser.parse, one S element per step      *)
(*   Spec          MPDParser.parse: fetch with retries, namespace, PSSH,    *)
(*                 representations                                          *)
(*   SpecRep       one MPDParser.parse over the manifests that vary the     *)
(*                 templates                                                *)
(*   SpecCdm       get_widevine_keys, two calls running concurrently        *)
(*   SpecLicense   get_widevine_keys, one call over every argument,         *)
(*                 response and key list                                    *)
(* Strings are tuples of one-character strings or of tokens; an optional    *)
(* value (Python's None) is the empty tuple, a present value v is <<v>>.    *)
(***************************************************************************)
EXTENDS Integers, Sequences, FiniteSets, TLC

VARIABLES
    \* ---- SegmentTimelineParser.parse -------------------------------------
    tl_pc,          \* "idle" | "loop" | "done"
    seg_timeline,   \* the argument: None, or Some(sequence of S elements)
    s_idx,          \* number of S elements the for loop has consumed
    number_list,
    time_list,
    current_time,   \* None or Some(int)
    start_number,
    \* ---- MPDParser --------------------------------------------------------
    manifest,        \* the document the server holds at mpd_url
    mpd_url,         \* self.mpd_url
    p_pc,            \* "idle" | "fetch" | "namespace" | "pssh" | "representations" | "done" | "raised"
    attempt,         \* the loop variable of _fetch_and_parse_mpd
    gets,            \* GET requests issued by the running parse() call
    errors,          \* the exceptions its attempts raised, in order
    fetched,         \* the running call's _fetch_and_parse_mpd has returned
    root,            \* self.root: None or Some(document)
    ns,              \* self.ns: prefix -> URI
    pssh,            \* self.pssh: None or Some(text)
    representations, \* self.representations
    raised,          \* the exception parse() raised to its caller, or None
    parses,          \* parse() calls made so far
    history,         \* self.representations as each completed parse() left it
    reps_before,     \* self.representations when the running call was entered
    \* ---- get_widevine_keys, one entry per call ----------------------------
    call_args,       \* the arguments of the call
    server,          \* the licence server's answer (None: the request raises) and
                     \* the keys its licence holds
    c_pc,            \* "absent" | "idle" | "load" | "open" | "challenge" | "post" |
                     \* "parse" | "keys" | "close" | "done"
    session_id,      \* the local session_id: None or Some(id)
    sessions,        \* every session opened so far, by id: owner Cdm, open, operations
    leaving,         \* how the inner try block is being left: return value or exception
    result,          \* None while running, then Some(what the caller received)
    diag,            \* what the call printed, in order
    posted,          \* the licence requests the call posted, in order
    license_bytes,   \* the local license_bytes
    faults,          \* the library calls that raised during the call
    \* ---- get_best, get_worst, select_audio --------------------------------
    sel_pc,          \* "absent" | "idle" | "done"
    sel_args,        \* the representation list and the language preferences
    sel_out,         \* None, or Some(the call made and what it returned)
    \* ---- URLBuilder.build_url ---------------------------------------------
    url_pc,          \* "absent" | "idle" | "done"
    url_args,        \* the arguments of the call
    url_out,         \* what the call returned: None or Some(url)
    \* ---- the registry of site APIs ---------------------------------------
    api_registry,    \* _API_REGISTRY: key -> class
    api_names,       \* the site names registered so far
    api_last,        \* None, or Some(the last registration that succeeded)
    api_out,         \* None, or Some(the last get_api call and its outcome)
    api_regs         \* register_api calls made

tlVars == <<tl_pc, seg_timeline, s_idx, number_list, time_list, current_time, start_number>>

mpdVars == <<manifest, mpd_url, p_pc, attempt, gets, errors, fetched, root, ns, pssh,
             representations, raised, parses, history, reps_before>>

cdmVars == <<call_args, server, c_pc, session_id, sessions, leaving, result, diag,
             posted, license_bytes, faults>>

selVars == <<sel_pc, sel_args, sel_out>>

urlVars == <<url_pc, url_args, url_out>>

apiVars == <<api_registry, api_names, api_last, api_out, api_regs>>

vars == <<tlVars, mpdVars, cdmVars, selVars, urlVars, apiVars>>

\* ---------------------------------------------------------------- optionals
None == <<>>
Some(v) == <<v>>
IsNone(o) == o = <<>>
Val(o) == o[1]

\* ---------------------------------------------------------------- int(str)
DigitChars == <<"0", "1", "2", "3", "4", "5", "6", "7", "8", "9">>

DigitVal(c) == (CHOOSE i \in 1..10 : DigitChars[i] = c) - 1

RECURSIVE ParseNat(_)
ParseNat(s) ==
    IF s = <<>> THEN 0
    ELSE 10 * ParseNat(SubSeq(s, 1, Len(s) - 1)) + DigitVal(s[Len(s)])

\* Python's int() on a decimal attribute value, with an optional sign.
ParseInt(s) == IF s[1] = "-" THEN 0 - ParseNat(Tail(s)) ELSE ParseNat(s)

\* element.get(name): None when the attribute is absent.
Attr(el, name) == IF name \in DOMAIN el THEN Some(el[name]) ELSE None

\* ------------------------------------------------- SegmentTimelineParser
\* The state of the decoder's loop.
TimelineInit ==
    [number_list |-> <<>>, time_list |-> <<>>, current_time |-> None, start_number |-> 1]

\* Mutant of Emit: the running segment number is not advanced.
RECURSIVE EmitNoIncrement(_, _, _)
EmitNoIncrement(st, d, k) ==
    IF k <= 0 THEN st
    ELSE EmitNoIncrement(
            [number_list  |-> Append(st.number_list, st.start_number),
             time_list    |-> Append(st.time_list, Val(st.current_time)),
             start_number |-> st.start_number,
             current_time |-> Some(Val(st.current_time) + d)],
            d, k - 1)

\* for i in range(k): append number and time, advance both.
RECURSIVE Emit(_, _, _)
Emit(st, d, k) ==
    IF k <= 0 THEN st
    ELSE Emit(
            [number_list  |-> Append(st.number_list, st.start_number),
             time_list    |-> Append(st.time_list, Val(st.current_time)),
             start_number |-> st.start_number + 1,
             current_time |-> Some(Val(st.current_time) + d)],
            d, k - 1)

\* Mutant of TimelineStep: t is read only while no time is running yet.
TimelineStepFirstTOnly(st, s) ==
    IF IsNone(Attr(s, "d")) THEN st
    ELSE LET d == ParseInt(s["d"])
             r == IF "r" \in DOMAIN s THEN ParseInt(s["r"]) ELSE 0
             ct == IF ~IsNone(st.current_time) THEN Val(st.current_time)
                   ELSE IF ~IsNone(Attr(s, "t")) THEN ParseInt(s["t"])
                   ELSE 0
         IN  Emit([st EXCEPT !.current_time = Some(ct)], d, r + 1)

\* Mutant of TimelineStep: the t attribute is handled before the d check.
TimelineStepTBeforeD(st, s) ==
    LET ct == IF ~IsNone(Attr(s, "t")) THEN Some(ParseInt(s["t"])) ELSE st.current_time
        st1 == [st EXCEPT !.current_time = ct]
    IN  IF IsNone(Attr(s, "d")) THEN st1
        ELSE LET d == ParseInt(s["d"])
                 r == IF "r" \in DOMAIN s THEN ParseInt(s["r"]) ELSE 0
                 st2 == IF IsNone(ct) THEN [st1 EXCEPT !.current_time = Some(0)] ELSE st1
             IN  Emit(st2, d, r + 1)

\* One iteration of the for loop over the S elements.
TimelineStep(st, s) ==
    IF IsNone(Attr(s, "d")) THEN st
    ELSE LET d == ParseInt(s["d"])
             r == IF "r" \in DOMAIN s THEN ParseInt(s["r"]) ELSE 0
             ct == IF ~IsNone(Attr(s, "t")) THEN ParseInt(s["t"])
                   ELSE IF IsNone(st.current_time) THEN 0
                   ELSE Val(st.current_time)
         IN  Emit([st EXCEPT !.current_time = Some(ct)], d, r + 1)

RECURSIVE TimelineFold(_, _)
TimelineFold(st, elems) ==
    IF elems = <<>> THEN st
    ELSE TimelineFold(TimelineStep(st, Head(elems)), Tail(elems))

\* SegmentTimelineParser.parse as a function: (number_list, time_list).
TimelineParse(timeline) ==
    IF IsNone(timeline) THEN <<<<>>, <<>>>>
    ELSE LET st == TimelineFold(TimelineInit, Val(timeline))
         IN  <<st.number_list, st.time_list>>

\* ------------------------------------------------------------ strings
(* A string is a tuple of atoms.  An atom is a one-character string, a run  *)
(* of literal text without '/', '?', '#' or '$', one origin (scheme and     *)
(* host), or one whole placeholder; '/', '?' and '#' are always atoms of    *)
(* their own.                                                               *)

RECURSIVE NatStr(_)
NatStr(n) ==
    IF n < 10 THEN <<DigitChars[n + 1]>>
    ELSE NatStr(n \div 10) \o <<DigitChars[(n % 10) + 1]>>

\* Python's str() of an int.
Str(n) == IF n < 0 THEN <<"-">> \o NatStr(0 - n) ELSE NatStr(n)

Zeros(k) == [i \in 1..k |-> "0"]

\* Python's str.zfill: pad on the left, after a sign, never truncate.
ZFill(s, width) ==
    IF Len(s) >= width THEN s
    ELSE IF s # <<>> /\ s[1] = "-"
         THEN <<"-">> \o Zeros(width - Len(s)) \o Tail(s)
         ELSE Zeros(width - Len(s)) \o s

Contains(s, atom) == \E i \in 1..Len(s) : s[i] = atom

\* Index of the first occurrence of atom in s, 0 when there is none.
IndexOf(s, atom) ==
    IF Contains(s, atom)
    THEN CHOOSE i \in 1..Len(s) : s[i] = atom /\ \A j \in 1..(i - 1) : s[j] # atom
    ELSE 0

\* Index of the last occurrence of atom in s, 0 when there is none.
LastIndexOf(s, atom) ==
    IF Contains(s, atom)
    THEN CHOOSE i \in 1..Len(s) : s[i] = atom /\ \A j \in (i + 1)..Len(s) : s[j] # atom
    ELSE 0

\* str.replace(atom, by): every occurrence.
RECURSIVE Replace(_, _, _)
Replace(s, atom, by) ==
    IF s = <<>> THEN <<>>
    ELSE (IF Head(s) = atom THEN by ELSE <<Head(s)>>) \o Replace(Tail(s), atom, by)

\* Python truthiness of an optional string: neither None nor ''.
Truthy(o) == ~IsNone(o) /\ Val(o) # <<>>

\* --------------------------------------------------------------- urljoin
Origins == {"http://host", "http://cdn"}

IsAbsoluteUrl(u) == u # <<>> /\ u[1] \in Origins

\* urllib.parse.urljoin for a base with an origin, a path and possibly a
\* query, and a reference that is empty, absolute, rooted ('/...') or a
\* relative path without dot segments: the base's query is dropped and the
\* reference replaces what follows the last '/' of the base's path.
UrlJoin(base, ref) ==
    LET path == IF IndexOf(base, "?") = 0 THEN base
                ELSE SubSeq(base, 1, IndexOf(base, "?") - 1)
    IN  IF ref = <<>> THEN base
        ELSE IF IsAbsoluteUrl(ref) THEN ref
        ELSE IF ref[1] = "/" THEN <<base[1]>> \o ref
        ELSE IF LastIndexOf(path, "/") = 0 THEN path \o <<"/">> \o ref
        ELSE SubSeq(path, 1, LastIndexOf(path, "/")) \o ref

\* ------------------------------------------------------------ URLBuilder
\* The atoms the pattern \$Number(\%0\d+d)?\$ matches, with the width of the
\* format (0: no format).
NumberWidth(atom) ==
    CASE atom = "$Number$" -> 0
      [] atom = "$Number%03d$" -> 3
      [] atom = "$Number%05d$" -> 5

NumberPlaceholders == {"$Number$", "$Number%03d$", "$Number%05d$"}

\* Atoms with the substring '$Number': the placeholders, and a malformed one
\* the pattern does not match.
NumberPrefixed == NumberPlaceholders \cup {"$Number%d$"}

ContainsNumber(s) == \E i \in 1..Len(s) : s[i] \in NumberPrefixed

\* _replace_number_match without the zfill: the number as str() writes it.
ReplaceNumberMatchUnpadded(atom, number) ==
    Str(IF IsNone(number) THEN 0 ELSE Val(number))

\* _replace_number_match: the text one match is replaced with.
ReplaceNumberMatch(atom, number) ==
    LET num == IF IsNone(number) THEN 0 ELSE Val(number)
    IN  IF NumberWidth(atom) > 0 THEN ZFill(Str(num), NumberWidth(atom)) ELSE Str(num)

\* _replace_number: re.sub over the template.
RECURSIVE ReplaceNumber(_, _)
ReplaceNumber(template, number) ==
    IF template = <<>> THEN <<>>
    ELSE (IF Head(template) \in NumberPlaceholders
          THEN ReplaceNumberMatch(Head(template), number)
          ELSE <<Head(template)>>) \o ReplaceNumber(Tail(template), number)

\* _finalize_url that reassembles the joined path and the query only.
FinalizeUrlWithoutFragment(base, template) ==
    LET h == IndexOf(template, "#")
        path_and_query == IF h = 0 THEN template ELSE SubSeq(template, 1, h - 1)
        q == IndexOf(path_and_query, "?")
    IN  IF q # 0
        THEN UrlJoin(base, SubSeq(path_and_query, 1, q - 1))
                \o <<"?">> \o SubSeq(path_and_query, q + 1, Len(path_and_query))
        ELSE UrlJoin(base, path_and_query)

\* _finalize_url: split off fragment and query, join the path, reassemble.
FinalizeUrl(base, template) ==
    LET h == IndexOf(template, "#")
        path_and_query == IF h = 0 THEN template ELSE SubSeq(template, 1, h - 1)
        frag == IF h = 0 THEN <<>> ELSE SubSeq(template, h, Len(template))
        q == IndexOf(path_and_query, "?")
    IN  IF q # 0
        THEN UrlJoin(base, SubSeq(path_and_query, 1, q - 1))
                \o <<"?">> \o SubSeq(path_and_query, q + 1, Len(path_and_query)) \o frag
        ELSE UrlJoin(base, path_and_query) \o frag

\* build_url(base, template, rep_id, number, time, bandwidth): None for an
\* empty template, else Some(url).  template and rep_id are optional strings,
\* number, time and bandwidth optional ints.
BuildUrl(base, template, rep_id, number, time, bandwidth) ==
    IF ~Truthy(template) THEN None
    ELSE LET t1 == IF IsNone(rep_id) THEN Val(template)
                   ELSE Replace(Val(template), "$RepresentationID$", Val(rep_id))
             t2 == IF IsNone(bandwidth) THEN t1
                   ELSE Replace(t1, "$Bandwidth$", Str(Val(bandwidth)))
             t3 == ReplaceNumber(t2, number)
             t4 == IF Contains(t3, "$Time$") /\ ~IsNone(time)
                   THEN Replace(t3, "$Time$", Str(Val(time)))
                   ELSE t3
         IN  Some(FinalizeUrl(base, t4))

\* -------------------------------------------------- RepresentationParser
(* An element is a record: attrs (its XML attributes by name) and its child  *)
(* elements.  A BaseURL child is None (no such child) or Some(text).         *)

\* str.strip() of the BaseURL text: leading and trailing blanks removed.
RECURSIVE StripLeft(_)
StripLeft(s) == IF s # <<>> /\ Head(s) = " " THEN StripLeft(Tail(s)) ELSE s

RECURSIVE StripRight(_)
StripRight(s) ==
    IF s # <<>> /\ s[Len(s)] = " " THEN StripRight(SubSeq(s, 1, Len(s) - 1)) ELSE s

Strip(s) == StripRight(StripLeft(s))

\* int(x) if x else None
IntOrNone(o) == IF Truthy(o) THEN Some(ParseInt(Val(o))) ELSE None

\* int(x) if x else 0
IntOrZero(o) == IF Truthy(o) THEN ParseInt(Val(o)) ELSE 0

\* Length of the synthetic range used when the decoder returned no number.
SyntheticCount == 100

\* Mutant of ResolveBaseUrl: the BaseURL texts are appended to the base.
ResolveBaseUrlConcatenating(rep_element, adapt_set, initial_base) ==
    LET b1 == IF Truthy(adapt_set.base)
              THEN initial_base \o Strip(Val(adapt_set.base))
              ELSE initial_base
    IN  IF Truthy(rep_element.base) THEN b1 \o Strip(Val(rep_element.base)) ELSE b1

\* _resolve_base_url: AdaptationSet BaseURL, then Representation BaseURL.
ResolveBaseUrl(rep_element, adapt_set, initial_base) ==
    LET b1 == IF Truthy(adapt_set.base)
              THEN UrlJoin(initial_base, Strip(Val(adapt_set.base)))
              ELSE initial_base
    IN  IF Truthy(rep_element.base) THEN UrlJoin(b1, Strip(Val(rep_element.base))) ELSE b1

\* Mutant of BuildMediaUrls: the $Time$ branch does not ask for a non-empty
\* time list.
BuildMediaUrlsTimeUnguarded(media_template, base_url, rep_id, bandwidth, numbers, times) ==
    IF ~Truthy(media_template) THEN <<>>
    ELSE LET bandwidth_int == IntOrNone(bandwidth)
         IN  IF Contains(Val(media_template), "$Time$")
             THEN [i \in 1..Len(times) |->
                     Val(BuildUrl(base_url, media_template, rep_id, None,
                                  Some(times[i]), bandwidth_int))]
             ELSE IF ContainsNumber(Val(media_template)) /\ numbers # <<>>
             THEN [i \in 1..Len(numbers) |->
                     Val(BuildUrl(base_url, media_template, rep_id,
                                  Some(numbers[i]), None, bandwidth_int))]
             ELSE <<Val(BuildUrl(base_url, media_template, rep_id, None, None,
                                 bandwidth_int))>>

\* _build_media_urls
BuildMediaUrls(media_template, base_url, rep_id, bandwidth, numbers, times) ==
    IF ~Truthy(media_template) THEN <<>>
    ELSE LET bandwidth_int == IntOrNone(bandwidth)
         IN  IF Contains(Val(media_template), "$Time$") /\ times # <<>>
             THEN [i \in 1..Len(times) |->
                     Val(BuildUrl(base_url, media_template, rep_id, None,
                                  Some(times[i]), bandwidth_int))]
             ELSE IF ContainsNumber(Val(media_template)) /\ numbers # <<>>
             THEN [i \in 1..Len(numbers) |->
                     Val(BuildUrl(base_url, media_template, rep_id,
                                  Some(numbers[i]), None, bandwidth_int))]
             ELSE <<Val(BuildUrl(base_url, media_template, rep_id, None, None,
                                 bandwidth_int))>>

\* _build_segment_urls: <<init_url, media_urls>>
BuildSegmentUrls(seg_tmpl, rep_id, bandwidth, base_url) ==
    LET init == Attr(seg_tmpl.attrs, "initialization")
        media == Attr(seg_tmpl.attrs, "media")
        first == IF "startNumber" \in DOMAIN seg_tmpl.attrs
                 THEN ParseInt(seg_tmpl.attrs["startNumber"]) ELSE 1
        init_url == IF Truthy(init)
                    THEN BuildUrl(base_url, init, rep_id, None, None, IntOrNone(bandwidth))
                    ELSE None
        decoded == TimelineParse(seg_tmpl.timeline)
        numbers == IF decoded[1] = <<>>
                   THEN [i \in 1..SyntheticCount |-> first + i - 1]
                   ELSE decoded[1]
    IN  <<init_url, BuildMediaUrls(media, base_url, rep_id, bandwidth, numbers, decoded[2])>>

\* mime_type.split('/')[0]
MajorType(mime_type) ==
    IF IndexOf(mime_type, "/") = 0 THEN mime_type
    ELSE SubSeq(mime_type, 1, IndexOf(mime_type, "/") - 1)

\* _parse_representation: None when no SegmentTemplate applies.
ParseRepresentation(rep_element, adapt_set, adapt_seg_template, base_url, mime_type, lang) ==
    LET rep_id == Attr(rep_element.attrs, "id")
        bandwidth == Attr(rep_element.attrs, "bandwidth")
        seg_tmpl == IF ~IsNone(rep_element.tmpl) THEN rep_element.tmpl ELSE adapt_seg_template
    IN  IF IsNone(seg_tmpl) THEN None
        ELSE LET rep_base_url == ResolveBaseUrl(rep_element, adapt_set, base_url)
                 urls == BuildSegmentUrls(Val(seg_tmpl), rep_id, bandwidth, rep_base_url)
             IN  Some([id           |-> rep_id,
                       type         |-> IF mime_type # <<>> THEN MajorType(mime_type)
                                        ELSE <<"unknown">>,
                       codec        |-> Attr(rep_element.attrs, "codecs"),
                       bandwidth    |-> IntOrZero(bandwidth),
                       width        |-> IntOrZero(Attr(rep_element.attrs, "width")),
                       height       |-> IntOrZero(Attr(rep_element.attrs, "height")),
                       language     |-> lang,
                       init_url     |-> urls[1],
                       segment_urls |-> urls[2]])

\* The loop of parse_adaptation_set over the first k Representation elements.
RECURSIVE ParseReps(_, _, _)
ParseReps(adapt_set, base_url, k) ==
    IF k = 0 THEN <<>>
    ELSE LET mime_type == IF "mimeType" \in DOMAIN adapt_set.attrs
                          THEN adapt_set.attrs["mimeType"] ELSE <<>>
             lang == IF "lang" \in DOMAIN adapt_set.attrs THEN adapt_set.attrs["lang"] ELSE <<>>
             representation == ParseRepresentation(adapt_set.reps[k], adapt_set,
                                                   adapt_set.tmpl, base_url, mime_type, lang)
         IN  ParseReps(adapt_set, base_url, k - 1)
                \o (IF IsNone(representation) THEN <<>> ELSE <<Val(representation)>>)

\* parse_adaptation_set
ParseAdaptationSet(adapt_set, base_url) == ParseReps(adapt_set, base_url, Len(adapt_set.reps))

\* ------------------------------------------------------ timeline inputs
MaxS == 2

DVals == {<<"5">>, <<"1", "0">>}
RVals == {<<"0">>, <<"2">>, <<"-", "1">>}
TVals == {<<"0">>, <<"1", "0", "0">>}

OptOf(S) == {None} \cup {Some(v) : v \in S}

\* An S element: its attributes, by name.
MkS(d, r, t) ==
    LET dom == (IF IsNone(d) THEN {} ELSE {"d"})
               \cup (IF IsNone(r) THEN {} ELSE {"r"})
               \cup (IF IsNone(t) THEN {} ELSE {"t"})
    IN  [a \in dom |-> IF a = "d" THEN Val(d) ELSE IF a = "r" THEN Val(r) ELSE Val(t)]

SElems == {MkS(d, r, t) : d \in OptOf(DVals), r \in OptOf(RVals), t \in OptOf(TVals)}

SeqsUpTo(S, n) == UNION {[1..k -> S] : k \in 0..n}

Timelines == OptOf(SeqsUpTo(SElems, MaxS))

\* ------------------------------------------------- timeline: the machine
TLIdle ==
    /\ tl_pc = "idle"
    /\ s_idx = 0
    /\ number_list = <<>>
    /\ time_list = <<>>
    /\ current_time = None
    /\ start_number = 1

TLState ==
    [number_list |-> number_list, time_list |-> time_list,
     current_time |-> current_time, start_number |-> start_number]

\* parse() is entered: the lists are created; an absent element returns at once.
TLStart ==
    /\ tl_pc = "idle"
    /\ number_list' = TimelineInit.number_list
    /\ time_list' = TimelineInit.time_list
    /\ current_time' = TimelineInit.current_time
    /\ start_number' = TimelineInit.start_number
    /\ s_idx' = 0
    /\ tl_pc' = IF IsNone(seg_timeline) THEN "done" ELSE "loop"
    /\ UNCHANGED <<seg_timeline, mpdVars, cdmVars, selVars, urlVars, apiVars>>

\* One S element of findall('mpd:S') goes through the loop body.
TLElement ==
    /\ tl_pc = "loop"
    /\ s_idx < Len(Val(seg_timeline))
    /\ LET st == TimelineStep(TLState, Val(seg_timeline)[s_idx + 1])
       IN  /\ number_list' = st.number_list
           /\ time_list' = st.time_list
           /\ current_time' = st.current_time
           /\ start_number' = st.start_number
    /\ s_idx' = s_idx + 1
    /\ UNCHANGED <<tl_pc, seg_timeline, mpdVars, cdmVars, selVars, urlVars, apiVars>>

\* The loop is exhausted: return number_list, time_list.
TLReturn ==
    /\ tl_pc = "loop"
    /\ s_idx = Len(Val(seg_timeline))
    /\ tl_pc' = "done"
    /\ UNCHANGED <<seg_timeline, s_idx, number_list, time_list, current_time, start_number,
                   mpdVars, cdmVars, selVars, urlVars, apiVars>>


\* ---------------------------------------------------------- MPDParser
\* REQUESTS.max_retry of the configuration.
max_retry == 2

\* parse() calls the model follows.
MaxParses == 2

MpdUrl == <<"http://host", "/", "a", "/", "m.mpd">>

CencUri == <<"urn:mpeg:cenc:2013">>

DashUri == <<"urn:mpeg:dash:schema:mpd:2011">>

\* What an attempt of the fetch loop can raise: requests.get (transport),
\* raise_for_status (status), ET.fromstring (xml).
FailureKinds == {"transport", "status", "xml"}

\* _get_initial_base_url
InitialBaseUrl(url, doc) ==
    LET cut == LastIndexOf(url, "/")
        dir == (IF cut = 0 THEN url ELSE SubSeq(url, 1, cut - 1)) \o <<"/">>
    IN  IF Truthy(doc.base) THEN UrlJoin(dir, Strip(Val(doc.base))) ELSE dir

\* root.tag[1:].split('}')[0]
TagUri(tag) ==
    LET rest == Tail(tag)
    IN  IF IndexOf(rest, "}") = 0 THEN rest ELSE SubSeq(rest, 1, IndexOf(rest, "}") - 1)

\* _extract_namespace: the namespace map after the call.
ExtractedNamespace(map, doc) ==
    IF doc.tag # <<>> /\ doc.tag[1] = "{"
    THEN [k \in DOMAIN map \cup {"mpd", "cenc"} |->
            IF k = "mpd" THEN TagUri(doc.tag)
            ELSE IF k = "cenc" THEN CencUri
            ELSE map[k]]
    ELSE map

\* protection.find('cenc:pssh', ns): the first cenc:pssh child, or None.
FindPssh(protection, map) ==
    LET hits == SelectSeq(protection, LAMBDA c : c.uri = map["cenc"])
    IN  IF hits = <<>> THEN None ELSE Some(hits[1])

\* The loop of _extract_pssh from protection i on: the text kept, or None.
RECURSIVE FirstPssh(_, _, _)
FirstPssh(protections, map, i) ==
    IF i > Len(protections) THEN None
    ELSE LET pssh_element == FindPssh(protections[i], map)
         IN  IF ~IsNone(pssh_element) /\ Truthy(Val(pssh_element).text)
             THEN Val(pssh_element).text
             ELSE FirstPssh(protections, map, i + 1)

\* The loop of _parse_representations over the first k AdaptationSets.
RECURSIVE ParseAdaptationSets(_, _, _)
ParseAdaptationSets(doc, base_url, k) ==
    IF k = 0 THEN <<>>
    ELSE ParseAdaptationSets(doc, base_url, k - 1)
            \o ParseAdaptationSet(doc.adaptation_sets[k], base_url)

\* raise e in the fetch loop: the exception of the attempt that just failed.
Propagated(errs) == errs[Len(errs)]

\* if attempt == max_retry
RetriesExhausted(att) == att = max_retry

\* MPDParser.__init__
NewParser ==
    /\ p_pc \in {"idle", "done", "raised"}
    /\ p_pc' = "idle"
    /\ pssh' = None
    /\ representations' = <<>>
    /\ ns' = <<>>
    /\ root' = None
    /\ raised' = None
    /\ attempt' = 0
    /\ gets' = 0
    /\ errors' = <<>>
    /\ fetched' = FALSE
    /\ reps_before' = <<>>
    /\ UNCHANGED <<manifest, mpd_url, parses, history, tlVars, cdmVars, selVars, urlVars, apiVars>>

\* parse() is called and enters the fetch loop.
StartParse ==
    /\ p_pc \in {"idle", "done", "raised"}
    /\ parses < MaxParses
    /\ parses' = parses + 1
    /\ p_pc' = "fetch"
    /\ attempt' = 0
    /\ gets' = 0
    /\ errors' = <<>>
    /\ fetched' = FALSE
    /\ raised' = None
    /\ reps_before' = representations
    /\ UNCHANGED <<manifest, mpd_url, root, ns, pssh, representations, history, tlVars, cdmVars, selVars, urlVars, apiVars>>

\* One attempt fails: the last one re-raises, any other one goes round.
GetFail ==
    /\ p_pc = "fetch"
    /\ \E kind \in FailureKinds :
          LET e == [kind |-> kind, attempt |-> attempt]
          IN  /\ errors' = Append(errors, e)
              /\ IF RetriesExhausted(attempt)
                 THEN /\ raised' = Some(Propagated(errors'))
                      /\ p_pc' = "raised"
                      /\ UNCHANGED attempt
                 ELSE /\ attempt' = attempt + 1
                      /\ UNCHANGED <<raised, p_pc>>
    /\ gets' = gets + 1
    /\ UNCHANGED <<manifest, mpd_url, fetched, root, ns, pssh, representations, parses,
                   history, reps_before, tlVars, cdmVars, selVars, urlVars, apiVars>>

\* One attempt succeeds: the body parses into self.root, the loop breaks.
GetOk ==
    /\ p_pc = "fetch"
    /\ gets' = gets + 1
    /\ root' = Some(manifest)
    /\ fetched' = TRUE
    /\ p_pc' = "namespace"
    /\ UNCHANGED <<manifest, mpd_url, attempt, errors, ns, pssh, representations, raised,
                   parses, history, reps_before, tlVars, cdmVars, selVars, urlVars, apiVars>>

\* _extract_namespace
ExtractNamespace ==
    /\ p_pc = "namespace"
    /\ ns' = ExtractedNamespace(ns, Val(root))
    /\ p_pc' = "pssh"
    /\ UNCHANGED <<manifest, mpd_url, attempt, gets, errors, fetched, root, pssh,
                   representations, raised, parses, history, reps_before, tlVars, cdmVars, selVars, urlVars, apiVars>>

\* _extract_pssh: findall with a prefix the map lacks raises SyntaxError.
ExtractPssh ==
    /\ p_pc = "pssh"
    /\ IF "mpd" \notin DOMAIN ns
       THEN /\ raised' = Some([kind |-> "prefix", attempt |-> attempt])
            /\ p_pc' = "raised"
            /\ UNCHANGED pssh
       ELSE /\ LET found == FirstPssh(Val(root).protections, ns, 1)
               IN  pssh' = IF IsNone(found) THEN pssh ELSE found
            /\ p_pc' = "representations"
            /\ UNCHANGED raised
    /\ UNCHANGED <<manifest, mpd_url, attempt, gets, errors, fetched, root, ns,
                   representations, parses, history, reps_before, tlVars, cdmVars, selVars, urlVars, apiVars>>

\* _parse_representations: extend self.representations; parse() returns.
ParseRepresentations ==
    /\ p_pc = "representations"
    /\ LET base_url == InitialBaseUrl(mpd_url, Val(root))
       IN  representations' =
              representations \o ParseAdaptationSets(Val(root), base_url,
                                                     Len(Val(root).adaptation_sets))
    /\ history' = Append(history, representations')
    /\ p_pc' = "done"
    /\ UNCHANGED <<manifest, mpd_url, attempt, gets, errors, fetched, root, ns, pssh,
                   raised, parses, reps_before, tlVars, cdmVars, selVars, urlVars, apiVars>>

\* ------------------------------------------------------ the manifests
\* The attributes given: a record of optional values, the None ones dropped.
MkAttrs(r) == [n \in {k \in DOMAIN r : ~IsNone(r[k])} |-> Val(r[n])]

MkTemplate(media, init, first, timeline) ==
    [attrs |-> MkAttrs([media |-> media, initialization |-> init, startNumber |-> first]),
     timeline |-> timeline]

MkRepresentation(attrs, base, tmpl) == [attrs |-> attrs, base |-> base, tmpl |-> tmpl]

MkAdaptationSet(attrs, base, tmpl, reps) ==
    [attrs |-> attrs, base |-> base, tmpl |-> tmpl, reps |-> reps]

MkDocument(tag, base, protections, adaptation_sets) ==
    [tag |-> tag, base |-> base, protections |-> protections,
     adaptation_sets |-> adaptation_sets]

NamespacedTag == <<"{">> \o DashUri \o <<"}", "MPD">>
PlainTag == <<"MPD">>

MediaTime == <<"seg_", "$Time$", ".m4s">>
MediaNumber == <<"seg_", "$Number$", ".m4s">>
MediaBoth == <<"$RepresentationID$", "_", "$Number%05d$", "_", "$Time$", ".m4s">>
MediaNeither == <<"seg.mp4">>

MediaOptions ==
    {None, Some(<<>>), Some(MediaTime), Some(MediaNumber), Some(MediaBoth), Some(MediaNeither)}

InitOptions == {None, Some(<<"init_", "$RepresentationID$", ".mp4">>)}

StartNumberOptions == {None, Some(<<"5">>)}

\* Absent; present without S; present with one d-less S; one entry; four entries.
TimelineOptions ==
    {None,
     Some(<<>>),
     Some(<<MkS(None, Some(<<"2">>), Some(<<"0">>))>>),
     Some(<<MkS(Some(<<"5">>), None, None)>>),
     Some(<<MkS(Some(<<"1", "0">>), Some(<<"2">>), Some(<<"0">>)),
            MkS(Some(<<"5">>), Some(<<"0">>), None)>>)}

Templates ==
    {MkTemplate(m, i, f, t) :
        m \in MediaOptions, i \in InitOptions, f \in StartNumberOptions, t \in TimelineOptions}

VideoAttrs ==
    [id |-> <<"v1">>, bandwidth |-> <<"5", "0", "0", "0">>, codecs |-> <<"avc1">>,
     width |-> <<"1", "9", "2", "0">>, height |-> <<"1", "0", "8", "0">>]

AudioAttrs == [id |-> <<"a1">>, bandwidth |-> <<"1", "2", "8">>, codecs |-> <<"mp4a">>]

RepAttrOptions == {VideoAttrs, <<>>}

AudioTemplate ==
    MkTemplate(Some(MediaNumber), Some(<<"init.mp4">>), None,
               Some(<<MkS(Some(<<"5">>), Some(<<"2">>), None)>>))

AudioSet ==
    MkAdaptationSet([mimeType |-> <<"audio", "/", "mp4">>, lang |-> <<"en">>], None,
                    Some(AudioTemplate), <<MkRepresentation(AudioAttrs, None, None)>>)

VideoSet(attrs, rep_tmpl, set_tmpl) ==
    MkAdaptationSet([mimeType |-> <<"video", "/", "mp4">>], None, set_tmpl,
                    <<MkRepresentation(attrs, None, rep_tmpl)>>)

Psshs == <<<<[uri |-> CencUri, text |-> Some(<<"AAAAW3Bzc2g=">>)]>>>>

\* A child element of ContentProtection: its namespace and its text.
MkPssh(uri, text) == [uri |-> uri, text |-> text]

\* The ContentProtection elements of a manifest in document order, each the
\* sequence of its pssh children: none; one without child; an empty cenc:pssh
\* ahead of a sibling with text; the same ahead of a second ContentProtection;
\* an empty one and then one with text; a pssh of another namespace ahead of
\* the cenc one.
ProtectionOptions ==
    {<<>>,
     <<<<>>>>,
     <<<<MkPssh(CencUri, None), MkPssh(CencUri, Some(<<"SECOND">>))>>>>,
     <<<<MkPssh(CencUri, Some(<<>>)), MkPssh(CencUri, Some(<<"SECOND">>))>>,
       <<MkPssh(CencUri, Some(<<"THIRD">>))>>>>,
     <<<<MkPssh(CencUri, None)>>, <<MkPssh(CencUri, Some(<<"FIRST">>))>>>>,
     <<<<MkPssh(<<"urn:microsoft:playready">>, Some(<<"OTHER">>)),
         MkPssh(CencUri, Some(<<"FIRST">>))>>>>}

\* The manifests of the representation checks: one video Representation whose
\* own SegmentTemplate ranges over Templates (or is absent), under an
\* AdaptationSet with or without a SegmentTemplate, alone or before an audio
\* AdaptationSet.
RichDocs ==
    {MkDocument(tag, None, Psshs,
                <<VideoSet(attrs, rep_tmpl, set_tmpl)>> \o (IF audio THEN <<AudioSet>> ELSE <<>>)) :
        tag \in {NamespacedTag, PlainTag},
        attrs \in RepAttrOptions,
        rep_tmpl \in OptOf(Templates),
        set_tmpl \in {None, Some(AudioTemplate)},
        audio \in BOOLEAN}

ExampleTemplate ==
    MkTemplate(Some(MediaTime), Some(<<"init_", "$RepresentationID$", ".mp4">>), None,
               Some(<<MkS(Some(<<"1", "0">>), Some(<<"2">>), Some(<<"0">>)),
                      MkS(Some(<<"5">>), Some(<<"0">>), None)>>))

ExampleDoc(tag) ==
    MkDocument(tag, None, Psshs,
               <<VideoSet(VideoAttrs, Some(ExampleTemplate), None), AudioSet>>)

\* The manifests of the fetch checks: the example with and without a root
\* namespace, and a manifest none of whose Representations has a template.
SmallDocs ==
    {ExampleDoc(NamespacedTag),
     ExampleDoc(PlainTag),
     MkDocument(NamespacedTag, None, <<>>, <<VideoSet(VideoAttrs, None, None)>>)}
    \cup {MkDocument(NamespacedTag, None, ps, <<AudioSet>>) : ps \in ProtectionOptions}

\* The manifest URLs of the base URL checks: a manifest in a directory, one
\* at the root, and one whose query holds a '/'.
MpdUrls ==
    {MpdUrl,
     <<"http://host", "/", "m.mpd">>,
     <<"http://host", "/", "a", "/", "m.mpd", "?", "t=x", "/", "y">>}

\* A BaseURL child: absent, without text, relative with and without a final
\* '/', surrounded by blanks, absolute.
BaseOptions ==
    {None, Some(<<>>), Some(<<"b", "/">>), Some(<<"v">>), Some(<<" ", "c", "/", " ">>),
     Some(<<"http://cdn", "/", "x", "/">>)}

StaticTemplate == MkTemplate(Some(MediaNeither), Some(<<"init.mp4">>), None, None)

\* The manifests of the base URL checks: one Representation under one
\* AdaptationSet, a BaseURL option at each of the three levels.
BaseDocs ==
    {MkDocument(NamespacedTag, b0, Psshs,
                <<MkAdaptationSet([mimeType |-> <<"video", "/", "mp4">>], b1,
                                  Some(StaticTemplate),
                                  <<MkRepresentation(VideoAttrs, b2, None)>>)>>) :
        b0 \in BaseOptions, b1 \in BaseOptions, b2 \in BaseOptions}

\* ------------------------------------------------- representation selection
\* str.lower() over the letters of the language tags.
UpperChars == <<"E", "I", "N", "O", "T">>
LowerChars == <<"e", "i", "n", "o", "t">>

LowerChar(c) ==
    IF \E i \in 1..Len(UpperChars) : UpperChars[i] = c
    THEN LowerChars[CHOOSE i \in 1..Len(UpperChars) : UpperChars[i] = c]
    ELSE c

Lower(s) == [i \in 1..Len(s) |-> LowerChar(s[i])]

\* The order of the tuples (r['bandwidth'], r['height'], r['width']).
VideoKeyLessBandwidthFirst(a, b) ==
    \/ a.bandwidth < b.bandwidth
    \/ a.bandwidth = b.bandwidth /\ a.height < b.height
    \/ a.bandwidth = b.bandwidth /\ a.height = b.height /\ a.width < b.width

\* The order of the tuples (r['height'], r['width'], r['bandwidth']).
VideoKeyLess(a, b) ==
    \/ a.height < b.height
    \/ a.height = b.height /\ a.width < b.width
    \/ a.height = b.height /\ a.width = b.width /\ a.bandwidth < b.bandwidth

\* The order of r['bandwidth'].
AudioKeyLess(a, b) == a.bandwidth < b.bandwidth

\* The order of the key the selection of a type uses.
KeyLess(type, a, b) ==
    IF type = <<"video">> THEN VideoKeyLess(a, b) ELSE AudioKeyLess(a, b)

\* max(seq, key=...): the first element no other element exceeds.
MaxOf(seq, type) ==
    seq[CHOOSE i \in 1..Len(seq) :
            /\ \A j \in 1..Len(seq) : ~KeyLess(type, seq[i], seq[j])
            /\ \A j \in 1..(i - 1) : KeyLess(type, seq[j], seq[i])]

\* min(seq, key=...): the first element that exceeds no other element.
MinOf(seq, type) ==
    seq[CHOOSE i \in 1..Len(seq) :
            /\ \A j \in 1..Len(seq) : ~KeyLess(type, seq[j], seq[i])
            /\ \A j \in 1..(i - 1) : KeyLess(type, seq[i], seq[j])]

\* get_list(representations, type_filter), get_resolutions, get_audios
OfType(reps, type) == SelectSeq(reps, LAMBDA r : r.type = type)

\* MPDParser.get_best
GetBest(reps) ==
    IF OfType(reps, <<"video">>) # <<>>
    THEN Some(MaxOf(OfType(reps, <<"video">>), <<"video">>))
    ELSE IF OfType(reps, <<"audio">>) # <<>>
    THEN Some(MaxOf(OfType(reps, <<"audio">>), <<"audio">>))
    ELSE None

\* MPDParser.get_worst
GetWorst(reps) ==
    IF OfType(reps, <<"video">>) # <<>>
    THEN Some(MinOf(OfType(reps, <<"video">>), <<"video">>))
    ELSE IF OfType(reps, <<"audio">>) # <<>>
    THEN Some(MinOf(OfType(reps, <<"audio">>), <<"audio">>))
    ELSE None

\* get_best_video
GetBestVideo(reps) ==
    IF OfType(reps, <<"video">>) = <<>> THEN None
    ELSE Some(MaxOf(OfType(reps, <<"video">>), <<"video">>))

\* get_best_audio
GetBestAudio(reps) ==
    IF OfType(reps, <<"audio">>) = <<>> THEN None
    ELSE Some(MaxOf(OfType(reps, <<"audio">>), <<"audio">>))

\* rep['language'] or "None"
LanguageOrNone(rep) == IF rep.language = <<>> THEN <<"N", "o", "n", "e">> ELSE rep.language

\* The inner loop of select_audio: the first audio whose language matches.
MatchOf(audio_reps, lang) ==
    LET hits == SelectSeq(audio_reps, LAMBDA r : Lower(LanguageOrNone(r)) = Lower(lang))
    IN  IF hits = <<>> THEN None ELSE Some(hits[1])

\* The outer loop of select_audio from preference i on: <<selected, lang>>.
RECURSIVE ScanPreferences(_, _, _)
ScanPreferences(audio_reps, langs, i) ==
    IF i > Len(langs) THEN <<None, <<"F", "i", "r", "s", "t">>>>
    ELSE IF ~IsNone(MatchOf(audio_reps, langs[i])) THEN <<MatchOf(audio_reps, langs[i]), langs[i]>>
    ELSE ScanPreferences(audio_reps, langs, i + 1)

\* select_audio
SelectAudio(reps, preferred_audio_langs) ==
    LET audio_reps == OfType(reps, <<"audio">>)
        scanned == IF Truthy(preferred_audio_langs)
                   THEN ScanPreferences(audio_reps, Val(preferred_audio_langs), 1)
                   ELSE <<None, <<"F", "i", "r", "s", "t">>>>
        selected_audio == IF IsNone(scanned[1]) THEN GetBestAudio(reps) ELSE scanned[1]
    IN  [selected_audio |-> selected_audio,
         list_available_audio_langs |->
             [i \in 1..Len(audio_reps) |-> LanguageOrNone(audio_reps[i])],
         filter_custom_audio |-> scanned[2],
         downloadable_audio |-> IF IsNone(selected_audio) THEN <<"N", "/", "A">>
                                ELSE LanguageOrNone(Val(selected_audio))]

\* A parsed representation as the selection reads it.
MkRep(id, type, language, height, width, bandwidth) ==
    [id |-> Some(<<id>>), type |-> <<type>>, codec |-> None, bandwidth |-> bandwidth,
     width |-> width, height |-> height, language |-> language, init_url |-> None,
     segment_urls |-> <<>>]

MaxReps == 3

RepPool ==
    {MkRep("v1", "video", <<>>, 1080, 1920, 3000),
     MkRep("v2", "video", <<>>, 1080, 1920, 5000),
     MkRep("v3", "video", <<>>, 1080, 1280, 9000),
     MkRep("v4", "video", <<>>, 720, 1280, 9000),
     MkRep("a1", "audio", <<"e", "n">>, 0, 0, 128),
     MkRep("a2", "audio", <<>>, 0, 0, 64),
     MkRep("a3", "audio", <<"I", "T">>, 0, 0, 128),
     MkRep("t1", "text", <<"e", "n">>, 0, 0, 1)}

RepLists == SeqsUpTo(RepPool, MaxReps)

PreferenceOptions ==
    {None, Some(<<>>), Some(<<<<"E", "N">>>>), Some(<<<<"f", "r">>, <<"i", "t">>>>),
     Some(<<<<"i", "t">>, <<"e", "n">>>>), Some(<<<<"f", "r">>>>),
     Some(<<<<"n", "o", "n", "e">>>>)}

\* No selection is made.
SelAbsent ==
    /\ sel_pc = "absent"
    /\ sel_args = [representations |-> <<>>, preferred_audio_langs |-> None]
    /\ sel_out = None

\* get_best(representations)
CallGetBest ==
    /\ sel_pc = "idle"
    /\ sel_out' = Some([op |-> "get_best", value |-> GetBest(sel_args.representations)])
    /\ sel_pc' = "done"
    /\ UNCHANGED <<sel_args, tlVars, mpdVars, cdmVars, urlVars, apiVars>>

\* get_worst(representations)
CallGetWorst ==
    /\ sel_pc = "idle"
    /\ sel_out' = Some([op |-> "get_worst", value |-> GetWorst(sel_args.representations)])
    /\ sel_pc' = "done"
    /\ UNCHANGED <<sel_args, tlVars, mpdVars, cdmVars, urlVars, apiVars>>

\* get_best_video()
CallGetBestVideo ==
    /\ sel_pc = "idle"
    /\ sel_out' = Some([op |-> "get_best_video",
                        value |-> GetBestVideo(sel_args.representations)])
    /\ sel_pc' = "done"
    /\ UNCHANGED <<sel_args, tlVars, mpdVars, cdmVars, urlVars, apiVars>>

\* select_audio(preferred_audio_langs)
CallSelectAudio ==
    /\ sel_pc = "idle"
    /\ sel_out' = Some([op |-> "select_audio",
                        value |-> SelectAudio(sel_args.representations,
                                              sel_args.preferred_audio_langs)])
    /\ sel_pc' = "done"
    /\ UNCHANGED <<sel_args, tlVars, mpdVars, cdmVars, urlVars, apiVars>>

\* ------------------------------------------------- URLBuilder: the machine
MkBuild(base, template, rep_id, number, time, bandwidth) ==
    [base |-> base, template |-> template, rep_id |-> rep_id, number |-> number,
     time |-> time, bandwidth |-> bandwidth]

\* The bases: a directory, a file in a directory of another origin, and a
\* directory followed by a query that holds a '/'.
BuildBases ==
    {<<"http://host", "/", "a", "/">>,
     <<"http://cdn", "/", "x", "/", "y">>,
     <<"http://host", "/", "a", "/", "m.mpd", "?", "t=x", "/">>}

\* The templates: absent, empty, plain, with number placeholders (padded,
\* plain, repeated, malformed), with the other placeholders, and with
\* queries and fragments.
BuildTemplates ==
    {None,
     Some(<<>>),
     Some(<<"seg.mp4">>),
     Some(<<"seg_", "$Number%03d$", ".m4s">>),
     Some(<<"seg_", "$Number$", ".m4s">>),
     Some(<<"$Number%05d$", "/", "$Number$", "_", "$Number%03d$">>),
     Some(<<"seg_", "$Number%d$", ".m4s">>),
     Some(<<"$RepresentationID$", "/", "$Bandwidth$", "/", "$Time$", ".m4s">>),
     Some(<<"seg.mp4", "?", "token=abc", "#", "frag">>),
     Some(<<"seg.mp4", "#", "frag">>),
     Some(<<"seg.mp4", "?", "token=abc">>),
     Some(<<"seg.mp4", "?">>),
     Some(<<"?", "token=abc", "#", "frag">>),
     Some(<<"a", "#", "b", "?", "c">>),
     Some(<<"d", "/", "seg.mp4", "?", "a=1", "?", "b=", "/", "2", "#", "f", "#", "g">>),
     Some(<<"http://cdn", "/", "seg.mp4", "?", "token=abc", "#", "frag">>),
     Some(<<"seg_", "$Number%03d$", ".m4s", "?", "n=", "$Number$", "#", "$Time$">>)}

BuildNumbers == {None, Some(0), Some(7), Some(42), Some(12345), Some(123456)}

BuildCalls ==
    {MkBuild(b, t, i, n, tm, bw) :
        b \in BuildBases, t \in BuildTemplates, i \in {None, Some(<<"v1">>)},
        n \in BuildNumbers, tm \in {None, Some(90000)}, bw \in {None, Some(5000)}}

\* No URL is being built.
UrlAbsent ==
    /\ url_pc = "absent"
    /\ url_args = MkBuild(<<>>, None, None, None, None, None)
    /\ url_out = None

\* URLBuilder.build_url(base, template, rep_id, number, time, bandwidth)
CallBuildUrl ==
    /\ url_pc = "idle"
    /\ url_out' = BuildUrl(url_args.base, url_args.template, url_args.rep_id,
                           url_args.number, url_args.time, url_args.bandwidth)
    /\ url_pc' = "done"
    /\ UNCHANGED <<url_args, tlVars, mpdVars, cdmVars, selVars, apiVars>>

\* ------------------------------------------------ the registry of site APIs
\* The classes: the two the module registers when imported, a concrete
\* subclass of BaseStreamingAPI defined elsewhere, BaseStreamingAPI itself
\* (abstract), and a class that does not inherit from it.
MkClass(name, subclass, abstract) == [name |-> name, subclass |-> subclass, abstract |-> abstract]

StreamingCommunityAPI == MkClass("StreamingCommunityAPI", TRUE, FALSE)
AnimeUnityAPI == MkClass("AnimeUnityAPI", TRUE, FALSE)
CustomAPI == MkClass("CustomAPI", TRUE, FALSE)
BaseStreamingAPI == MkClass("BaseStreamingAPI", TRUE, TRUE)
NotAnAPI == MkClass("NotAnAPI", FALSE, FALSE)

ApiClasses == {StreamingCommunityAPI, AnimeUnityAPI, CustomAPI, BaseStreamingAPI, NotAnAPI}

StreamingCommunityKey ==
    <<"s", "t", "r", "e", "a", "m", "i", "n", "g", "c", "o", "m", "m", "u", "n", "i", "t", "y">>

AnimeUnityKey == <<"a", "n", "i", "m", "e", "u", "n", "i", "t", "y">>

\* _API_REGISTRY as the module defines it.
ApiRegistryAtImport ==
    [k \in {StreamingCommunityKey, AnimeUnityKey} |->
        IF k = StreamingCommunityKey THEN StreamingCommunityAPI ELSE AnimeUnityAPI]

\* site_name.split('_')[0]
FirstPart(s) == IF IndexOf(s, "_") = 0 THEN s ELSE SubSeq(s, 1, IndexOf(s, "_") - 1)

\* The key get_api looks up: site_name.lower().split('_')[0]
SiteKey(site_name) == FirstPart(Lower(site_name))

\* api_class(): an instance, or the TypeError of an abstract class.
Instantiate(api_class) ==
    IF api_class.abstract THEN [kind |-> "TypeError", cls |-> None]
    ELSE [kind |-> "instance", cls |-> Some(api_class.name)]

\* get_api(site_name) on a registry: what it returns or raises.
GetApiOn(registry, site_name) ==
    IF SiteKey(site_name) \notin DOMAIN registry
    THEN [kind |-> "ValueError", cls |-> None]
    ELSE Instantiate(registry[SiteKey(site_name)])

\* register_api(site_name, api_class) on a registry: the registry after it.
RegisterApiOn(registry, site_name, api_class) ==
    IF ~api_class.subclass THEN registry
    ELSE [k \in DOMAIN registry \cup {Lower(site_name)} |->
             IF k = Lower(site_name) THEN api_class ELSE registry[k]]

\* The site names of the calls: lower case, with upper-case letters, with an
\* underscore, both, a name that is the first part of another, and a name
\* the module registers itself with a suffix.
SiteNames ==
    {<<"t", "e", "n">>,
     <<"T", "e", "N">>,
     <<"t", "e", "_", "n", "o">>,
     <<"T", "E", "_", "N", "O">>,
     <<"t", "e">>,
     AnimeUnityKey \o <<"_", "i", "t">>}

MaxRegs == 2

\* The module was imported and nothing else was done.
ApiImported ==
    /\ api_registry = ApiRegistryAtImport
    /\ api_names = {StreamingCommunityKey, AnimeUnityKey}
    /\ api_last = None
    /\ api_out = None
    /\ api_regs = 0

\* register_api(site_name, api_class)
RegisterApi ==
    /\ api_regs < MaxRegs
    /\ \E site_name \in SiteNames, api_class \in ApiClasses :
          /\ api_registry' = RegisterApiOn(api_registry, site_name, api_class)
          /\ IF api_class.subclass
             THEN /\ api_names' = api_names \cup {site_name}
                  /\ api_last' = Some([site_name |-> site_name, api_class |-> api_class])
             ELSE UNCHANGED <<api_names, api_last>>
    /\ api_regs' = api_regs + 1
    /\ api_out' = None
    /\ UNCHANGED <<tlVars, mpdVars, cdmVars, selVars, urlVars>>

\* get_api(site_name)
GetApi ==
    /\ \E site_name \in SiteNames :
          api_out' = Some([site_name |-> site_name,
                           outcome |-> GetApiOn(api_registry, site_name)])
    /\ UNCHANGED <<api_registry, api_names, api_last, api_regs,
                   tlVars, mpdVars, cdmVars, selVars, urlVars>>

\* ------------------------------------------------------ get_widevine_keys
\* The calls of get_widevine_keys that run side by side.
Calls == {1, 2}

\* What a call hands back to its caller.
Returned(v) == [kind |-> "return", value |-> v]
Propagating(e) == [kind |-> "raise", value |-> Some(e)]

\* bytes.hex(): two lowercase digits per byte.
HexChars == <<"0", "1", "2", "3", "4", "5", "6", "7", "8", "9",
              "a", "b", "c", "d", "e", "f">>

ByteHex(b) == <<HexChars[(b \div 16) + 1], HexChars[(b % 16) + 1]>>

RECURSIVE BytesHex(_)
BytesHex(bs) ==
    IF bs = <<>> THEN <<>> ELSE ByteHex(Head(bs)) \o BytesHex(Tail(bs))

\* str(uuid.UUID): the 32 digits in groups of 8-4-4-4-12.
UuidStr(bs) ==
    LET h == BytesHex(bs)
    IN  SubSeq(h, 1, 8) \o <<"-">> \o SubSeq(h, 9, 12) \o <<"-">> \o SubSeq(h, 13, 16)
        \o <<"-">> \o SubSeq(h, 17, 20) \o <<"-">> \o SubSeq(h, 21, 32)

\* v.hex() if isinstance(v, bytes) else str(v); pywidevine hands out uuid.UUID
\* key ids and bytes key values.
HexOrStr(v) == IF v.cls = "bytes" THEN BytesHex(v.bytes) ELSE UuidStr(v.bytes)

\* The dict appended for one CONTENT key.
NormalizeKey(key) ==
    [kid |-> Strip(Replace(HexOrStr(key.kid), "-", <<>>)),
     key |-> Strip(Replace(HexOrStr(key.key), "-", <<>>))]

\* The loop over cdm.get_keys(session_id) keeps every key, whatever its type.
RECURSIVE ContentKeysAnyType(_)
ContentKeysAnyType(keys) ==
    IF keys = <<>> THEN <<>>
    ELSE <<NormalizeKey(Head(keys))>> \o ContentKeysAnyType(Tail(keys))

\* The loop over cdm.get_keys(session_id).
RECURSIVE ContentKeys(_)
ContentKeys(keys) ==
    IF keys = <<>> THEN <<>>
    ELSE (IF Head(keys).type = "CONTENT" THEN <<NormalizeKey(Head(keys))>> ELSE <<>>)
         \o ContentKeys(Tail(keys))

\* base64.b64decode of a padded string: None stands for binascii.Error.
B64Chars ==
    <<"A", "B", "C", "D", "E", "F", "G", "H", "I", "J", "K", "L", "M", "N", "O", "P",
      "Q", "R", "S", "T", "U", "V", "W", "X", "Y", "Z", "a", "b", "c", "d", "e", "f",
      "g", "h", "i", "j", "k", "l", "m", "n", "o", "p", "q", "r", "s", "t", "u", "v",
      "w", "x", "y", "z", "0", "1", "2", "3", "4", "5", "6", "7", "8", "9", "+", "/">>

B64Val(c) == (CHOOSE i \in 1..Len(B64Chars) : B64Chars[i] = c) - 1

B64Quantum(q) ==
    LET pad == IF q[3] = "=" THEN 2 ELSE IF q[4] = "=" THEN 1 ELSE 0
        v(i) == IF q[i] = "=" THEN 0 ELSE B64Val(q[i])
        n == v(1) * 262144 + v(2) * 4096 + v(3) * 64 + v(4)
        bytes == <<n \div 65536, (n \div 256) % 256, n % 256>>
    IN  SubSeq(bytes, 1, 3 - pad)

RECURSIVE B64Bytes(_)
B64Bytes(s) ==
    IF s = <<>> THEN <<>> ELSE B64Quantum(SubSeq(s, 1, 4)) \o B64Bytes(SubSeq(s, 5, Len(s)))

B64Decode(s) ==
    LET data == SelectSeq(s, LAMBDA c : c # "=")
        pads == Len(s) - Len(data)
    IN  IF /\ Len(s) % 4 = 0
           /\ pads <= 2
           /\ \A i \in 1..Len(s) : s[i] = "=" => i > Len(s) - pads
        THEN Some(B64Bytes(s))
        ELSE None

\* urlencode(query_params): name=value pairs joined by &.
RECURSIVE UrlEncode(_)
UrlEncode(params) ==
    IF params = <<>> THEN <<>>
    ELSE <<Head(params)[1], "=", Head(params)[2]>>
         \o (IF Tail(params) = <<>> THEN <<>> ELSE <<"&">> \o UrlEncode(Tail(params)))

RequestUrl(license_url, query_params) ==
    IF Truthy(query_params)
    THEN license_url \o <<"?">> \o UrlEncode(Val(query_params))
    ELSE license_url

\* headers.copy() if headers else {}, then the default Content-Type.
RequestHeaders(headers) ==
    LET req_headers == IF Truthy(headers) THEN Val(headers) ELSE <<>>
    IN  IF "Content-Type" \notin DOMAIN req_headers
        THEN [h \in DOMAIN req_headers \cup {"Content-Type"} |->
                 IF h = "Content-Type" THEN <<"application/octet-stream">>
                 ELSE req_headers[h]]
        ELSE req_headers

BuildRequest(a, challenge) ==
    [url |-> RequestUrl(a.license_url, a.query_params),
     headers |-> RequestHeaders(a.headers),
     data |-> challenge]

\* response.headers.get("Content-Type", "")
ContentTypeOf(response) ==
    IF "Content-Type" \in DOMAIN response.headers
    THEN response.headers["Content-Type"] ELSE <<>>

\* The interpretation that takes every status from 200 to 299 for a licence.
InterpretResponseAny2xx(response) ==
    IF response.status_code < 200 \/ response.status_code > 299
    THEN [diag |-> Some("License error"), bytes |-> <<>>]
    ELSE IF Contains(ContentTypeOf(response), "application/json")
    THEN IF IsNone(response.json)
         THEN [diag |-> Some("Error parsing JSON license"), bytes |-> <<>>]
         ELSE LET data == Val(response.json)
              IN  IF "license" \in DOMAIN data
                  THEN IF IsNone(B64Decode(data["license"]))
                       THEN [diag |-> Some("Error parsing JSON license"), bytes |-> <<>>]
                       ELSE IF Val(B64Decode(data["license"])) = <<>>
                            THEN [diag |-> Some("License data is empty"), bytes |-> <<>>]
                            ELSE [diag |-> None, bytes |-> Val(B64Decode(data["license"]))]
                  ELSE [diag |-> Some("'license' field not found in JSON response"),
                        bytes |-> <<>>]
    ELSE IF response.content = <<>>
         THEN [diag |-> Some("License data is empty"), bytes |-> <<>>]
         ELSE [diag |-> None, bytes |-> response.content]

\* The interpretation without the test 'if not license_bytes'.
InterpretResponseWithoutEmptyCheck(response) ==
    IF response.status_code # 200 THEN [diag |-> Some("License error"), bytes |-> <<>>]
    ELSE IF Contains(ContentTypeOf(response), "application/json")
    THEN IF IsNone(response.json)
         THEN [diag |-> Some("Error parsing JSON license"), bytes |-> <<>>]
         ELSE LET data == Val(response.json)
              IN  IF "license" \in DOMAIN data
                  THEN IF IsNone(B64Decode(data["license"]))
                       THEN [diag |-> Some("Error parsing JSON license"), bytes |-> <<>>]
                       ELSE [diag |-> None, bytes |-> Val(B64Decode(data["license"]))]
                  ELSE [diag |-> Some("'license' field not found in JSON response"),
                        bytes |-> <<>>]
    ELSE [diag |-> None, bytes |-> response.content]

\* What the body of the try block makes of a response: the diagnostic it
\* prints and leaves with, or the licence bytes it carries on with.
InterpretResponse(response) ==
    IF response.status_code # 200 THEN [diag |-> Some("License error"), bytes |-> <<>>]
    ELSE IF Contains(ContentTypeOf(response), "application/json")
    THEN IF IsNone(response.json)
         THEN [diag |-> Some("Error parsing JSON license"), bytes |-> <<>>]
         ELSE LET data == Val(response.json)
              IN  IF "license" \in DOMAIN data
                  THEN IF IsNone(B64Decode(data["license"]))
                       THEN [diag |-> Some("Error parsing JSON license"), bytes |-> <<>>]
                       ELSE IF Val(B64Decode(data["license"])) = <<>>
                            THEN [diag |-> Some("License data is empty"), bytes |-> <<>>]
                            ELSE [diag |-> None, bytes |-> Val(B64Decode(data["license"]))]
                  ELSE [diag |-> Some("'license' field not found in JSON response"),
                        bytes |-> <<>>]
    ELSE IF response.content = <<>>
         THEN [diag |-> Some("License data is empty"), bytes |-> <<>>]
         ELSE [diag |-> None, bytes |-> response.content]

\* The outer handler: except Exception as e ... return None.
OuterHandlerReraises(e) == Propagating(e)

OuterHandler(e) == Returned(None)

\* The session id of a call is its local variable; sharing one name between
\* the calls is what the function does not do.
MySessionShared(p) == IF sessions = <<>> THEN None ELSE Some(Len(sessions))

MySession(p) == session_id[p]

\* Where control goes when the inner try block is left: its finally clause.
LeaveTryReturnsAtOnce(how) ==
    IF how.kind = "return" /\ IsNone(how.value) THEN "done" ELSE "close"

LeaveTry(how) == "close"

\* cdm.open(): a new session of the call's own Cdm object.
NewSession(p) == [cdm |-> p, open |-> TRUE, ops |-> <<>>]

\* A session operation as the Cdm object sees it.
SessionOp(s, op, p) ==
    [s EXCEPT !.ops = Append(@, [op |-> op, by |-> p]),
              !.open = IF op = "close" THEN FALSE ELSE @]

Message(msg) == [msg |-> msg, context |-> None]

\* The dict printed after a status other than 200.
StatusContext(a, request, sid) ==
    [msg |-> "context",
     context |-> Some([url |-> a.license_url, headers |-> request.headers,
                       session_id |-> BytesHex(<<sid>>), pssh |-> a.pssh])]

\* get_widevine_keys is entered: the device path check.
CdmCall(p) ==
    /\ c_pc[p] = "idle"
    /\ IF ~Truthy(call_args[p].cdm_device_path)
       THEN /\ diag' = [diag EXCEPT ![p] = Append(@, Message("Invalid CDM device path"))]
            /\ result' = [result EXCEPT ![p] = Some(Returned(None))]
            /\ c_pc' = [c_pc EXCEPT ![p] = "done"]
       ELSE /\ c_pc' = [c_pc EXCEPT ![p] = "load"]
            /\ UNCHANGED <<diag, result>>
    /\ UNCHANGED <<call_args, server, session_id, sessions, leaving, posted,
                   license_bytes, faults, tlVars, mpdVars, selVars, urlVars, apiVars>>

\* Device.load and Cdm.from_device.
LoadDevice(p) ==
    /\ c_pc[p] = "load"
    /\ \E ok \in BOOLEAN :
          IF ok
          THEN /\ c_pc' = [c_pc EXCEPT ![p] = "open"]
               /\ UNCHANGED <<diag, result, faults>>
          ELSE /\ faults' = [faults EXCEPT ![p] = @ \cup {"device"}]
               /\ diag' = [diag EXCEPT ![p] = Append(@, Message("CDM error"))]
               /\ result' = [result EXCEPT ![p] = Some(OuterHandler("device"))]
               /\ c_pc' = [c_pc EXCEPT ![p] = "done"]
    /\ UNCHANGED <<call_args, server, session_id, sessions, leaving, posted,
                   license_bytes, tlVars, mpdVars, selVars, urlVars, apiVars>>

\* session_id = cdm.open()
OpenSession(p) ==
    /\ c_pc[p] = "open"
    /\ \E ok \in BOOLEAN :
          IF ok
          THEN /\ sessions' = Append(sessions, NewSession(p))
               /\ session_id' = [session_id EXCEPT ![p] = Some(Len(sessions) + 1)]
               /\ c_pc' = [c_pc EXCEPT ![p] = "challenge"]
               /\ UNCHANGED <<diag, result, faults>>
          ELSE /\ faults' = [faults EXCEPT ![p] = @ \cup {"open"}]
               /\ diag' = [diag EXCEPT ![p] = Append(@, Message("CDM error"))]
               /\ result' = [result EXCEPT ![p] = Some(OuterHandler("open"))]
               /\ c_pc' = [c_pc EXCEPT ![p] = "done"]
               /\ UNCHANGED <<sessions, session_id>>
    /\ UNCHANGED <<call_args, server, leaving, posted, license_bytes, tlVars, mpdVars, selVars, urlVars, apiVars>>

\* challenge = cdm.get_license_challenge(session_id, PSSH(pssh))
Challenge(p) ==
    /\ c_pc[p] = "challenge"
    /\ LET sid == Val(MySession(p))
       IN  /\ sessions' = [sessions EXCEPT ![sid] = SessionOp(@, "challenge", p)]
           /\ \E ok \in BOOLEAN :
                 IF ok
                 THEN /\ c_pc' = [c_pc EXCEPT ![p] = "post"]
                      /\ UNCHANGED <<leaving, faults>>
                 ELSE /\ faults' = [faults EXCEPT ![p] = @ \cup {"challenge"}]
                      /\ leaving' = [leaving EXCEPT ![p] = Propagating("challenge")]
                      /\ c_pc' = [c_pc EXCEPT ![p] = LeaveTry(Propagating("challenge"))]
    /\ UNCHANGED <<call_args, server, session_id, result, diag, posted,
                   license_bytes, tlVars, mpdVars, selVars, urlVars, apiVars>>

\* The request is built and posted, and the response is interpreted up to
\* the licence bytes.
PostLicense(p) ==
    /\ c_pc[p] = "post"
    /\ LET sid == Val(MySession(p))
           request == BuildRequest(call_args[p], [session |-> sid, pssh |-> call_args[p].pssh])
           answer == server[p].response
       IN  /\ posted' = [posted EXCEPT ![p] = Append(@, request)]
           /\ IF IsNone(answer)
              THEN /\ diag' = [diag EXCEPT ![p] = Append(@, Message("Request error"))]
                   /\ leaving' = [leaving EXCEPT ![p] = Returned(None)]
                   /\ c_pc' = [c_pc EXCEPT ![p] = LeaveTry(Returned(None))]
                   /\ UNCHANGED license_bytes
              ELSE LET r == InterpretResponse(Val(answer))
                   IN  IF IsNone(r.diag)
                       THEN /\ license_bytes' = [license_bytes EXCEPT ![p] = r.bytes]
                            /\ c_pc' = [c_pc EXCEPT ![p] = "parse"]
                            /\ UNCHANGED <<diag, leaving>>
                       ELSE /\ diag' = [diag EXCEPT ![p] =
                                   IF Val(r.diag) = "License error"
                                   THEN @ \o <<Message(Val(r.diag)),
                                               StatusContext(call_args[p], request, sid)>>
                                   ELSE Append(@, Message(Val(r.diag)))]
                            /\ leaving' = [leaving EXCEPT ![p] = Returned(None)]
                            /\ c_pc' = [c_pc EXCEPT ![p] = LeaveTry(Returned(None))]
                            /\ UNCHANGED license_bytes
    /\ UNCHANGED <<call_args, server, session_id, sessions, result, faults, tlVars, mpdVars, selVars, urlVars, apiVars>>

\* cdm.parse_license(session_id, license_bytes)
ParseLicense(p) ==
    /\ c_pc[p] = "parse"
    /\ LET sid == Val(MySession(p))
       IN  /\ sessions' = [sessions EXCEPT ![sid] = SessionOp(@, "parse_license", p)]
           /\ \E ok \in BOOLEAN :
                 IF ok
                 THEN /\ c_pc' = [c_pc EXCEPT ![p] = "keys"]
                      /\ UNCHANGED <<leaving, faults, diag>>
                 ELSE /\ faults' = [faults EXCEPT ![p] = @ \cup {"parse_license"}]
                      /\ diag' = [diag EXCEPT ![p] = Append(@, Message("Error parsing license"))]
                      /\ leaving' = [leaving EXCEPT ![p] = Returned(None)]
                      /\ c_pc' = [c_pc EXCEPT ![p] = LeaveTry(Returned(None))]
    /\ UNCHANGED <<call_args, server, session_id, result, posted, license_bytes,
                   tlVars, mpdVars, selVars, urlVars, apiVars>>

\* The loop over cdm.get_keys(session_id) and the return that follows it.
GetKeys(p) ==
    /\ c_pc[p] = "keys"
    /\ LET sid == Val(MySession(p))
           content_keys == ContentKeys(server[p].keys)
       IN  /\ sessions' = [sessions EXCEPT ![sid] = SessionOp(@, "get_keys", p)]
           /\ \E ok \in BOOLEAN :
                 IF ~ok
                 THEN /\ faults' = [faults EXCEPT ![p] = @ \cup {"get_keys"}]
                      /\ leaving' = [leaving EXCEPT ![p] = Propagating("get_keys")]
                      /\ c_pc' = [c_pc EXCEPT ![p] = LeaveTry(Propagating("get_keys"))]
                      /\ UNCHANGED diag
                 ELSE IF content_keys = <<>>
                 THEN /\ diag' = [diag EXCEPT ![p] =
                                     Append(@, Message("No CONTENT keys found in license"))]
                      /\ leaving' = [leaving EXCEPT ![p] = Returned(None)]
                      /\ c_pc' = [c_pc EXCEPT ![p] = LeaveTry(Returned(None))]
                      /\ UNCHANGED faults
                 ELSE /\ leaving' = [leaving EXCEPT ![p] = Returned(Some(content_keys))]
                      /\ c_pc' = [c_pc EXCEPT ![p] = LeaveTry(Returned(Some(content_keys)))]
                      /\ UNCHANGED <<faults, diag>>
    /\ UNCHANGED <<call_args, server, session_id, result, posted, license_bytes,
                   tlVars, mpdVars, selVars, urlVars, apiVars>>

\* finally: cdm.close(session_id), then the pending return or the outer handler.
CloseSession(p) ==
    /\ c_pc[p] = "close"
    /\ LET sid == Val(MySession(p))
       IN  /\ sessions' = [sessions EXCEPT ![sid] = SessionOp(@, "close", p)]
           /\ \E ok \in BOOLEAN :
                 IF ok /\ leaving[p].kind = "return"
                 THEN /\ result' = [result EXCEPT ![p] = Some(leaving[p])]
                      /\ UNCHANGED <<faults, diag>>
                 ELSE /\ faults' = [faults EXCEPT ![p] =
                                       IF ok THEN @ ELSE @ \cup {"close"}]
                      /\ diag' = [diag EXCEPT ![p] = Append(@, Message("CDM error"))]
                      /\ result' = [result EXCEPT ![p] =
                                       Some(OuterHandler(IF ok THEN Val(leaving[p].value)
                                                         ELSE "close"))]
    /\ c_pc' = [c_pc EXCEPT ![p] = "done"]
    /\ UNCHANGED <<call_args, server, session_id, leaving, posted, license_bytes,
                   tlVars, mpdVars, selVars, urlVars, apiVars>>

\* ------------------------------------------ get_widevine_keys: the inputs
MaxKeys == 2

Uuid1 == [cls |-> "UUID",
          bytes |-> <<171, 205, 239, 1, 35, 69, 103, 137, 10, 11, 12, 13, 14, 15, 0, 255>>]

Uuid2 == [cls |-> "UUID",
          bytes |-> <<0, 17, 34, 51, 68, 85, 102, 119, 136, 153, 170, 187, 204, 221, 238, 255>>]

KeyBytes1 == [cls |-> "bytes",
              bytes |-> <<222, 173, 190, 239, 0, 1, 2, 3, 4, 5, 6, 7, 8, 9, 160, 176>>]

KeyBytes2 == [cls |-> "bytes", bytes |-> <<16, 32, 48, 64, 80, 96, 112, 128>>]

\* The key types of a licence.
KeyTypes == {"CONTENT", "SIGNING", "OPERATOR_SESSION"}

MkKey(type, kid, key) == [type |-> type, kid |-> kid, key |-> key]

LicenseKeys == {MkKey(t, k, v) : t \in KeyTypes, k \in {Uuid1, Uuid2}, v \in {KeyBytes1, KeyBytes2}}

KeyLists == SeqsUpTo(LicenseKeys, MaxKeys)

ExampleKeys ==
    <<MkKey("SIGNING", Uuid2, KeyBytes2), MkKey("CONTENT", Uuid1, KeyBytes1)>>

MkArgs(path, headers, query_params) ==
    [pssh |-> <<"AAAAW3Bzc2g=">>,
     license_url |-> <<"http://host", "/", "license">>,
     cdm_device_path |-> path,
     headers |-> headers,
     query_params |-> query_params]

DevicePaths == {Some(<<"device.wvd">>), Some(<<>>), None}

HeaderOptions ==
    {None,
     Some([h \in {"Content-Type"} |-> <<"application/json">>]),
     Some([h \in {"content-type", "Authorization"} |->
              IF h = "content-type" THEN <<"application/json">> ELSE <<"Bearer", " ", "t">>])}

QueryOptions == {None, Some(<<<<"token", "abc">>, <<"id", "7">>>>)}

ArgOptions == {MkArgs(d, h, q) : d \in DevicePaths, h \in HeaderOptions, q \in QueryOptions}

ExampleArgs == MkArgs(Some(<<"device.wvd">>), None, None)

MkResponse(status_code, content_type, content, json) ==
    [status_code |-> status_code,
     headers |-> IF IsNone(content_type) THEN <<>>
                 ELSE [h \in {"Content-Type"} |-> Val(content_type)],
     content |-> content,
     json |-> json]

StatusCodes == {200, 201, 403}

ContentTypes ==
    {None, Some(<<"application/octet-stream">>), Some(<<"application/json">>),
     Some(<<"application/json", ";", " ", "charset=utf-8">>)}

RawLicense == <<8, 2, 18, 52>>

\* The bodies: raw bytes and what response.json() makes of them (None when
\* it raises).
Bodies ==
    {[content |-> RawLicense, json |-> None],
     [content |-> <<>>, json |-> None],
     [content |-> <<123, 125>>, json |-> Some(<<>>)],
     [content |-> <<123, 34, 125>>, json |-> Some([f \in {"license"} |-> <<"C", "A", "I", "=">>])],
     [content |-> <<123, 34, 34, 125>>, json |-> Some([f \in {"license"} |-> <<>>])],
     [content |-> <<123, 34, 61, 125>>, json |-> Some([f \in {"license"} |-> <<"C", "A", "I">>])]}

Responses ==
    {MkResponse(s, t, b.content, b.json) : s \in StatusCodes, t \in ContentTypes, b \in Bodies}

GoodResponse == MkResponse(200, Some(<<"application/octet-stream">>), RawLicense, None)

MkServer(response, keys) == [response |-> response, keys |-> keys]

\* The exchanges of the two-call checks: one per exit of the try block.
SmallExchanges ==
    {[args |-> MkArgs(None, None, None), server |-> MkServer(Some(GoodResponse), ExampleKeys)],
     [args |-> ExampleArgs, server |-> MkServer(None, ExampleKeys)],
     [args |-> ExampleArgs,
      server |-> MkServer(Some(MkResponse(403, None, RawLicense, None)), ExampleKeys)],
     [args |-> ExampleArgs,
      server |-> MkServer(Some(MkResponse(200, Some(<<"application/json">>),
                                          RawLicense, None)), ExampleKeys)],
     [args |-> ExampleArgs,
      server |-> MkServer(Some(MkResponse(200, None, <<>>, None)), ExampleKeys)],
     [args |-> ExampleArgs,
      server |-> MkServer(Some(GoodResponse), <<MkKey("SIGNING", Uuid2, KeyBytes2)>>)],
     [args |-> ExampleArgs, server |-> MkServer(Some(GoodResponse), ExampleKeys)]}

\* The exchanges of the one-call checks: every argument and response with
\* the example keys, and every key list behind a good response.
RichExchanges ==
    {[args |-> a, server |-> MkServer(r, ExampleKeys)] :
        a \in ArgOptions, r \in {None} \cup {Some(x) : x \in Responses}}
    \cup {[args |-> ExampleArgs, server |-> MkServer(Some(GoodResponse), ks)] : ks \in KeyLists}

\* ---------------------------------------------------- the specifications
MpdIdle ==
    /\ p_pc = "idle"
    /\ attempt = 0
    /\ gets = 0
    /\ errors = <<>>
    /\ fetched = FALSE
    /\ root = None
    /\ ns = <<>>
    /\ pssh = None
    /\ representations = <<>>
    /\ raised = None
    /\ history = <<>>
    /\ reps_before = <<>>

\* No call of get_widevine_keys is made.
CdmAbsent ==
    /\ call_args = [p \in Calls |-> ExampleArgs]
    /\ server = [p \in Calls |-> MkServer(None, <<>>)]
    /\ c_pc = [p \in Calls |-> "absent"]
    /\ session_id = [p \in Calls |-> None]
    /\ sessions = <<>>
    /\ leaving = [p \in Calls |-> Returned(None)]
    /\ result = [p \in Calls |-> None]
    /\ diag = [p \in Calls |-> <<>>]
    /\ posted = [p \in Calls |-> <<>>]
    /\ license_bytes = [p \in Calls |-> <<>>]
    /\ faults = [p \in Calls |-> {}]

\* A parser just constructed, and the server's manifest.
Init ==
    /\ manifest \in SmallDocs
    /\ mpd_url = MpdUrl
    /\ MpdIdle
    /\ parses = 0
    /\ seg_timeline = None
    /\ TLIdle
    /\ CdmAbsent
    /\ SelAbsent
    /\ UrlAbsent
    /\ ApiImported

Next ==
    \/ NewParser
    \/ StartParse
    \/ GetFail
    \/ GetOk
    \/ ExtractNamespace
    \/ ExtractPssh
    \/ ParseRepresentations

Spec == Init /\ [][Next]_vars

\* One parse() call of a parser just constructed, answered at the first attempt.
InitRep ==
    /\ manifest \in RichDocs
    /\ mpd_url = MpdUrl
    /\ MpdIdle
    /\ parses = MaxParses - 1
    /\ seg_timeline = None
    /\ TLIdle
    /\ CdmAbsent
    /\ SelAbsent
    /\ UrlAbsent
    /\ ApiImported

NextRep ==
    \/ StartParse
    \/ GetOk
    \/ ExtractNamespace
    \/ ExtractPssh
    \/ ParseRepresentations

SpecRep == InitRep /\ [][NextRep]_vars

\* One parse() call over the manifests that vary the BaseURL elements.
InitBase ==
    /\ manifest \in BaseDocs
    /\ mpd_url \in MpdUrls
    /\ MpdIdle
    /\ parses = MaxParses - 1
    /\ seg_timeline = None
    /\ TLIdle
    /\ CdmAbsent
    /\ SelAbsent
    /\ UrlAbsent
    /\ ApiImported

SpecBase == InitBase /\ [][NextRep]_vars

\* SegmentTimelineParser.parse on its own.
InitTimeline ==
    /\ seg_timeline \in Timelines
    /\ TLIdle
    /\ manifest = ExampleDoc(NamespacedTag)
    /\ mpd_url = MpdUrl
    /\ MpdIdle
    /\ parses = 0
    /\ CdmAbsent
    /\ SelAbsent
    /\ UrlAbsent
    /\ ApiImported

NextTimeline ==
    \/ TLStart
    \/ TLElement
    \/ TLReturn

SpecTimeline == InitTimeline /\ [][NextTimeline]_vars

\* The calls named in callers are about to be made, each with its exchange.
CdmIdle(callers, exchanges) ==
    /\ \E x \in [callers -> exchanges] :
          /\ call_args = [p \in Calls |-> IF p \in callers THEN x[p].args ELSE ExampleArgs]
          /\ server = [p \in Calls |->
                          IF p \in callers THEN x[p].server ELSE MkServer(None, <<>>)]
    /\ c_pc = [p \in Calls |-> IF p \in callers THEN "idle" ELSE "absent"]
    /\ session_id = [p \in Calls |-> None]
    /\ sessions = <<>>
    /\ leaving = [p \in Calls |-> Returned(None)]
    /\ result = [p \in Calls |-> None]
    /\ diag = [p \in Calls |-> <<>>]
    /\ posted = [p \in Calls |-> <<>>]
    /\ license_bytes = [p \in Calls |-> <<>>]
    /\ faults = [p \in Calls |-> {}]

NoParsing ==
    /\ seg_timeline = None
    /\ TLIdle
    /\ manifest = ExampleDoc(NamespacedTag)
    /\ mpd_url = MpdUrl
    /\ MpdIdle
    /\ parses = 0

\* One selection call over a representation list and a preference list.
InitSelect ==
    /\ sel_pc = "idle"
    /\ \E reps \in RepLists, langs \in PreferenceOptions :
          sel_args = [representations |-> reps, preferred_audio_langs |-> langs]
    /\ sel_out = None
    /\ NoParsing
    /\ CdmAbsent
    /\ UrlAbsent
    /\ ApiImported

NextSelect ==
    \/ CallGetBest
    \/ CallGetWorst
    \/ CallGetBestVideo
    \/ CallSelectAudio

SpecSelect == InitSelect /\ [][NextSelect]_vars

\* One build_url call.
InitBuild ==
    /\ url_pc = "idle"
    /\ url_args \in BuildCalls
    /\ url_out = None
    /\ NoParsing
    /\ CdmAbsent
    /\ SelAbsent
    /\ ApiImported

NextBuild == CallBuildUrl

SpecBuild == InitBuild /\ [][NextBuild]_vars

\* Registrations and lookups after the import of the module.
InitApi ==
    /\ ApiImported
    /\ NoParsing
    /\ CdmAbsent
    /\ SelAbsent
    /\ UrlAbsent

NextApi ==
    \/ RegisterApi
    \/ GetApi

SpecApi == InitApi /\ [][NextApi]_vars

\* Two calls of get_widevine_keys, interleaved at every library call.
InitCdm ==
    /\ CdmIdle(Calls, SmallExchanges)
    /\ NoParsing
    /\ SelAbsent
    /\ UrlAbsent
    /\ ApiImported

NextCdm ==
    \/ \E p \in Calls : CdmCall(p)
    \/ \E p \in Calls : LoadDevice(p)
    \/ \E p \in Calls : OpenSession(p)
    \/ \E p \in Calls : Challenge(p)
    \/ \E p \in Calls : PostLicense(p)
    \/ \E p \in Calls : ParseLicense(p)
    \/ \E p \in Calls : GetKeys(p)
    \/ \E p \in Calls : CloseSession(p)

SpecCdm == InitCdm /\ [][NextCdm]_vars

\* One call of get_widevine_keys.
InitLicense ==
    /\ CdmIdle({1}, RichExchanges)
    /\ NoParsing
    /\ SelAbsent
    /\ UrlAbsent
    /\ ApiImported

SpecLicense == InitLicense /\ [][NextCdm]_vars

\* ------------------------------------------------ timeline: the claims
Elems == Val(seg_timeline)

HasD(s) == "d" \in DOMAIN s

RepeatOf(s) == IF "r" \in DOMAIN s THEN ParseInt(s["r"]) ELSE 0

AllRepeatsNonNegative == \A i \in 1..Len(Elems) : RepeatOf(Elems[i]) >= 0

\* Entries an S element contributes: r+1 when it carries d, none otherwise.
EntriesOf(s) == IF HasD(s) /\ RepeatOf(s) >= 0 THEN RepeatOf(s) + 1 ELSE 0

RECURSIVE EntriesUpTo(_)
EntriesUpTo(j) == IF j = 0 THEN 0 ELSE EntriesUpTo(j - 1) + EntriesOf(Elems[j])

\* The S element (its index) that produced entry i of the output.
Producer(i) == CHOOSE j \in 1..Len(Elems) : EntriesUpTo(j - 1) < i /\ i <= EntriesUpTo(j)

ExampleTimeline ==
    <<MkS(Some(<<"1", "0">>), Some(<<"2">>), Some(<<"0">>)),
      MkS(Some(<<"5">>), Some(<<"0">>), None)>>

\* C8: for a SegmentTimeline whose repeat counts are all >= 0, parse returns a
\* number list and a time list of equal length, the length being the sum of
\* (r+1) over the S elements that carry d, and the numbers are 1, 2, ..., n;
\* an absent SegmentTimeline yields two empty lists.
C8_TimelineLengths ==
    tl_pc = "done" =>
        IF IsNone(seg_timeline)
        THEN number_list = <<>> /\ time_list = <<>>
        ELSE AllRepeatsNonNegative =>
                /\ Len(number_list) = Len(time_list)
                /\ Len(number_list) = EntriesUpTo(Len(Elems))
                /\ \A i \in 1..Len(number_list) : number_list[i] = i

C8_Witness ==
    /\ tl_pc = "done"
    /\ seg_timeline = Some(ExampleTimeline)
    /\ number_list = <<1, 2, 3, 4>>
    /\ Len(time_list) = 4

\* The first t the decoder meets (on an S element it does not skip), 0 when
\* there is none.
CarriesDT(s) == HasD(s) /\ "t" \in DOMAIN s

FirstTEncountered ==
    IF \E i \in 1..Len(Elems) : CarriesDT(Elems[i])
    THEN LET i == CHOOSE k \in 1..Len(Elems) :
                    /\ CarriesDT(Elems[k])
                    /\ \A m \in 1..(k - 1) : ~CarriesDT(Elems[m])
         IN  ParseInt(Elems[i]["t"])
    ELSE 0

\* C9 as stated (repeat counts r >= 0): the first start time is the first t encountered (0 if no S
\* element carries t) and every later start time is the previous start time
\* plus the d of the S element that produced the previous entry.
C9_Original ==
    (tl_pc = "done" /\ ~IsNone(seg_timeline) /\ AllRepeatsNonNegative /\ Len(time_list) >= 1) =>
        /\ time_list[1] = FirstTEncountered
        /\ \A i \in 2..Len(time_list) :
              time_list[i] = time_list[i - 1] + ParseInt(Elems[Producer(i - 1)]["d"])

\* C9 as amended (repeat counts r >= 0, as in C8): the first start time is the
\* t of the S element that produces the first entry (0 if that element carries
\* no t); a later entry that is the first one of an S element carrying t
\* starts at that t; every other later entry starts at the previous start time
\* plus the d of the S element that produced the previous entry.
C9_TimesRestartAtT ==
    (tl_pc = "done" /\ ~IsNone(seg_timeline) /\ AllRepeatsNonNegative /\ Len(time_list) >= 1) =>
        /\ time_list[1] = (IF "t" \in DOMAIN Elems[Producer(1)]
                           THEN ParseInt(Elems[Producer(1)]["t"]) ELSE 0)
        /\ \A i \in 2..Len(time_list) :
              IF Producer(i) # Producer(i - 1) /\ "t" \in DOMAIN Elems[Producer(i)]
              THEN time_list[i] = ParseInt(Elems[Producer(i)]["t"])
              ELSE time_list[i] = time_list[i - 1] + ParseInt(Elems[Producer(i - 1)]["d"])

\* A later S element carries t and restarts the running time.
C9_Witness ==
    /\ tl_pc = "done"
    /\ seg_timeline = Some(<<MkS(Some(<<"1", "0">>), Some(<<"2">>), Some(<<"0">>)),
                             MkS(Some(<<"5">>), None, Some(<<"1", "0", "0">>))>>)
    /\ time_list = <<0, 10, 20, 100>>

\* C10: an S element that lacks d emits nothing and changes neither the
\* running number nor the running time, whatever t or r it carries: after any
\* number of loop iterations the decoder's state is the state it reaches on the
\* consumed elements with the d-less ones removed.
C10_DlessElementsSkipped ==
    (tl_pc \in {"loop", "done"} /\ ~IsNone(seg_timeline)) =>
        TLState = TimelineFold(TimelineInit, SelectSeq(SubSeq(Elems, 1, s_idx), HasD))

\* A d-less element carrying t and r precedes an element that emits.
C10_Witness ==
    /\ tl_pc = "done"
    /\ ~IsNone(seg_timeline)
    /\ Len(Elems) = 2
    /\ DOMAIN Elems[1] = {"r", "t"}
    /\ HasD(Elems[2])
    /\ Len(number_list) >= 1

\* -------------------------------------------- representations: the claims
\* The SegmentTemplate chosen for each Representation element that has one, in
\* document order: the Representations a parse produces, by position.
RECURSIVE SetSources(_, _)
SetSources(adapt_set, k) ==
    IF k = 0 THEN <<>>
    ELSE LET own == adapt_set.reps[k].tmpl
             chosen == IF ~IsNone(own) THEN own ELSE adapt_set.tmpl
         IN  SetSources(adapt_set, k - 1) \o (IF IsNone(chosen) THEN <<>> ELSE chosen)

RECURSIVE DocSources(_, _)
DocSources(doc, k) ==
    IF k = 0 THEN <<>>
    ELSE DocSources(doc, k - 1)
            \o SetSources(doc.adaptation_sets[k], Len(doc.adaptation_sets[k].reps))

Sources == DocSources(manifest, Len(manifest.adaptation_sets))

\* Entries the decoder returns for a template's SegmentTimeline.
Decoded(tmpl) == Len(TimelineParse(tmpl.timeline)[1])

MediaOf(tmpl) == Attr(tmpl.attrs, "media")

FetchLoopContract ==
    /\ gets <= max_retry + 1
    /\ fetched => (gets = Len(errors) + 1 /\ root = Some(manifest))
    /\ Len(errors) = max_retry + 1 =>
          /\ p_pc = "raised"
          /\ raised = Some(errors[Len(errors)])
          /\ representations = reps_before
    /\ (p_pc = "raised" /\ ~fetched) => Len(errors) = max_retry + 1

\* C1: _fetch_and_parse_mpd makes its GET attempts one after another, stops at
\* the first that succeeds and never makes more than max_retry+1; if all
\* max_retry+1 attempts fail the last failure reaches the caller of parse()
\* and no representation is produced; if an earlier attempt fails and a later
\* one within the bound succeeds, parse() completes with the parsed document.
C1_Original ==
    /\ gets <= max_retry + 1
    /\ fetched => gets = Len(errors) + 1
    /\ Len(errors) = max_retry + 1 =>
          /\ p_pc = "raised"
          /\ raised = Some(errors[Len(errors)])
          /\ representations = reps_before
    /\ (fetched /\ Len(errors) >= 1 /\ p_pc \in {"done", "raised"}) =>
          /\ p_pc = "done"
          /\ root = Some(manifest)

\* C2: parsing the same manifest twice yields identical Representation lists,
\* nothing left by the first parse showing in the result of the second.
C2_Original ==
    \A i, j \in 1..Len(history) : history[i] = history[j]

\* What does hold: a parse() on a parser just constructed gives the list the
\* first parse gave.
FreshParsersAgree ==
    (p_pc = "done" /\ reps_before = <<>>) => representations = history[1]

\* ------------------------------------------ get_widevine_keys: the claims
SessionIds == 1..Len(sessions)

OpsOf(s) == sessions[s].ops

\* How often op was performed on session s.
CountOps(s, op) == Cardinality({i \in 1..Len(OpsOf(s)) : OpsOf(s)[i].op = op})

\* How often call p performed op, on whatever session.
CountBy(p, op) ==
    Cardinality({<<s, i>> \in SessionIds \X (1..4 * Cardinality(Calls)) :
                    /\ i <= Len(OpsOf(s))
                    /\ OpsOf(s)[i].op = op
                    /\ OpsOf(s)[i].by = p})

HasReturned(p) == c_pc[p] = "done"

ReturnedValue(p) == Val(result[p]).value

HasDiag(p, msg) == \E i \in 1..Len(diag[p]) : diag[p][i].msg = msg

\* C3: a session that was opened is closed exactly once before its call
\* returns, on every exit path; no challenge, parse_license or get_keys
\* follows the close; a call posts at most one licence request and calls
\* parse_license at most once.
C3_SessionClosedOnce ==
    \A p \in Calls :
        /\ Len(posted[p]) <= 1
        /\ CountBy(p, "parse_license") <= 1
        /\ \A s \in SessionIds :
               sessions[s].cdm = p =>
                   /\ CountOps(s, "close") <= 1
                   /\ \A i \in 1..Len(OpsOf(s)) : OpsOf(s)[i].op = "close" => i = Len(OpsOf(s))
                   /\ HasReturned(p) => (CountOps(s, "close") = 1 /\ ~sessions[s].open)

\* One call has returned its keys and the other has left through the status
\* check, each with its session closed once.
C3_Witness ==
    /\ HasReturned(1) /\ HasReturned(2)
    /\ Len(sessions) = 2
    /\ ~IsNone(ReturnedValue(1))
    /\ HasDiag(2, "License error")
    /\ \A s \in SessionIds : CountOps(s, "close") = 1 /\ ~sessions[s].open

\* The licence bytes the code is to draw from a response; None where there
\* are none to draw.
LicenseIn(response) ==
    IF Contains(ContentTypeOf(response), "application/json")
    THEN IF IsNone(response.json) \/ "license" \notin DOMAIN Val(response.json)
         THEN None
         ELSE B64Decode(Val(response.json)["license"])
    ELSE Some(response.content)

\* The failures of the licence protocol, read off what the library calls
\* did and what the server answered.
ProtocolFailed(p) ==
    \/ faults[p] # {}
    \/ IsNone(server[p].response)
    \/ Val(server[p].response).status_code # 200
    \/ IsNone(LicenseIn(Val(server[p].response)))
    \/ Val(LicenseIn(Val(server[p].response))) = <<>>
    \/ \A i \in 1..Len(server[p].keys) : server[p].keys[i].type # "CONTENT"

\* C4: every failure inside the licence protocol makes get_widevine_keys
\* return None, and no exception ever reaches the caller.
C4_FailuresReturnNone ==
    \A p \in Calls :
        /\ ~IsNone(result[p]) => Val(result[p]).kind = "return"
        /\ HasReturned(p) =>
               /\ ~IsNone(result[p])
               /\ ProtocolFailed(p) => IsNone(ReturnedValue(p))

\* The keys were extracted, closing the session raised, and the call
\* returned None.
C4_Witness ==
    /\ HasReturned(1)
    /\ faults[1] = {"close"}
    /\ ~IsNone(leaving[1].value)
    /\ Val(result[1]) = Returned(None)

IsLowerHex(s) == \A i \in 1..Len(s) : \E j \in 1..Len(HexChars) : s[i] = HexChars[j]

Enumerated(p) == server[p].keys

EnumeratedContent(p) == SelectSeq(Enumerated(p), LAMBDA k : k.type = "CONTENT")

\* C5: the list returned holds one entry per enumerated key of type CONTENT,
\* in enumeration order, none for any other type, and every kid and key in
\* it is lowercase hexadecimal without separators.
C5_ContentKeysOnly ==
    \A p \in Calls :
        (HasReturned(p) /\ ~IsNone(ReturnedValue(p))) =>
            LET out == Val(ReturnedValue(p))
                want == EnumeratedContent(p)
            IN  /\ Len(out) = Len(want)
                /\ \A i \in 1..Len(out) :
                       /\ out[i].kid = BytesHex(want[i].kid.bytes)
                       /\ out[i].key = BytesHex(want[i].key.bytes)
                       /\ IsLowerHex(out[i].kid)
                       /\ IsLowerHex(out[i].key)
                       /\ Len(out[i].kid) = 32

\* A licence with a key of another type ahead of a CONTENT key, and the list
\* the call returned for it.
C5_Witness ==
    /\ HasReturned(1)
    /\ ~IsNone(ReturnedValue(1))
    /\ Len(Enumerated(1)) = MaxKeys
    /\ Enumerated(1)[1].type # "CONTENT"
    /\ Enumerated(1)[MaxKeys].type = "CONTENT"

\* C6: of two concurrent calls each operates only on the session it opened,
\* neither closes nor reads keys from the other's, and once both have
\* returned no session is open.
C6_OwnSessionOnly ==
    /\ \A s \in SessionIds :
           \A i \in 1..Len(OpsOf(s)) : OpsOf(s)[i].by = sessions[s].cdm
    /\ \A p \in Calls :
           ~IsNone(session_id[p]) => sessions[Val(session_id[p])].cdm = p
    /\ (\A p \in Calls : HasReturned(p)) => \A s \in SessionIds : ~sessions[s].open

\* Both sessions are open at once, one call is about to read its keys while
\* the other is about to close.
C6_Witness ==
    /\ Len(sessions) = 2
    /\ sessions[1].open /\ sessions[2].open
    /\ c_pc[1] = "keys"
    /\ c_pc[2] = "close"
    /\ CountOps(1, "parse_license") = 1
    /\ CountOps(2, "parse_license") = 1

\* ------------------------------------------------ namespace: the claims
Namespaced(doc) == doc.tag # <<>> /\ doc.tag[1] = "{"

NamespaceExtracted == p_pc \in {"pssh", "representations", "done"}

\* C11: after namespace extraction the map binds cenc to urn:mpeg:cenc:2013
\* for every manifest, with or without a namespace on the root tag.
C11_Original ==
    NamespaceExtracted => ("cenc" \in DOMAIN ns /\ ns["cenc"] = CencUri)

\* For the manifests whose root tag carries a namespace the binding is made.
CencBoundWhenNamespaced ==
    (NamespaceExtracted /\ Namespaced(Val(root))) =>
        ("cenc" \in DOMAIN ns /\ ns["cenc"] = CencUri)

\* C12: for a root tag without namespace parse() completes without raising,
\* mpd stays unset, PSSH stays unset and the representation list is empty.
C12_Original ==
    (fetched /\ ~Namespaced(Val(root)) /\ p_pc \in {"done", "raised"}) =>
        /\ p_pc = "done"
        /\ "mpd" \notin DOMAIN ns
        /\ IsNone(pssh)
        /\ representations = <<>>

\* ----------------------------------------------------- PSSH: the claims
\* The cenc:pssh children of all ContentProtection elements, in document order.
RECURSIVE PsshChildren(_)
PsshChildren(protections) ==
    IF protections = <<>> THEN <<>>
    ELSE SelectSeq(Head(protections), LAMBDA c : c.uri = CencUri)
         \o PsshChildren(Tail(protections))

\* The text of the first of them that has any, or None.
FirstPsshText(doc) ==
    LET withText == SelectSeq(PsshChildren(doc.protections), LAMBDA c : Truthy(c.text))
    IN  IF withText = <<>> THEN None ELSE withText[1].text

\* C13: after parse(), pssh is the text of the first cenc:pssh child of a
\* ContentProtection that has non-empty text, an empty earlier sibling
\* notwithstanding; without such an element pssh stays unset, nothing is
\* raised and the representations are parsed.
C13_Original ==
    (fetched /\ Namespaced(Val(root)) /\ p_pc \in {"done", "raised"}) =>
        /\ p_pc = "done"
        /\ pssh = FirstPsshText(Val(root))
        /\ Len(representations) >= Len(reps_before)

\* Where no ContentProtection has more than one cenc:pssh child, pssh is as
\* C13 says.
PsshOfOnlyChildren ==
    (fetched /\ Namespaced(Val(root)) /\ p_pc \in {"done", "raised"}
        /\ \A i \in 1..Len(Val(root).protections) :
              Len(PsshChildren(<<Val(root).protections[i]>>)) <= 1) =>
        /\ p_pc = "done"
        /\ pssh = FirstPsshText(Val(root))

\* ------------------------------------------------- base URL: the claims
\* The manifest URL with its last path segment removed.
Seed(url) ==
    LET path == IF Contains(url, "?") THEN SubSeq(url, 1, IndexOf(url, "?") - 1) ELSE url
    IN  SubSeq(path, 1, LastIndexOf(path, "/"))

\* One level of the chain: an absent or empty BaseURL is skipped, an
\* absolute one replaces the base, a relative one replaces what follows the
\* last '/' of the base.
JoinLevel(base, level) ==
    IF IsNone(level) \/ Strip(Val(level)) = <<>> THEN base
    ELSE IF Val(level)[1] \in Origins THEN Val(level)
    ELSE SubSeq(base, 1, LastIndexOf(base, "/")) \o Strip(Val(level))

EffectiveBase(url, doc, set, rep) ==
    JoinLevel(JoinLevel(JoinLevel(Seed(url), doc.base), set.base), rep.base)

SelVideos == OfType(sel_args.representations, <<"video">>)

SelAudios == OfType(sel_args.representations, <<"audio">>)

InSeq(x, seq) == \E i \in 1..Len(seq) : seq[i] = x

\* (height, width, bandwidth) of a is at most that of b, field by field in
\* this order.
TupleAtMost(a, b) ==
    IF a.height # b.height THEN a.height < b.height
    ELSE IF a.width # b.width THEN a.width < b.width
    ELSE a.bandwidth <= b.bandwidth

Made(op) == sel_pc = "done" /\ Val(sel_out).op = op

\* C15: get_best returns a video of maximal (height, width, bandwidth), or
\* without video the audio of maximal bandwidth, or None without either;
\* get_worst the same with minimal in place of maximal.
C15_BestAndWorst ==
    /\ Made("get_best") =>
          LET best == Val(sel_out).value
          IN  IF SelVideos # <<>>
              THEN /\ ~IsNone(best) /\ InSeq(Val(best), SelVideos)
                   /\ \A i \in 1..Len(SelVideos) : TupleAtMost(SelVideos[i], Val(best))
              ELSE IF SelAudios # <<>>
              THEN /\ ~IsNone(best) /\ InSeq(Val(best), SelAudios)
                   /\ \A i \in 1..Len(SelAudios) : SelAudios[i].bandwidth <= Val(best).bandwidth
              ELSE IsNone(best)
    /\ Made("get_worst") =>
          LET worst == Val(sel_out).value
          IN  IF SelVideos # <<>>
              THEN /\ ~IsNone(worst) /\ InSeq(Val(worst), SelVideos)
                   /\ \A i \in 1..Len(SelVideos) : TupleAtMost(Val(worst), SelVideos[i])
              ELSE IF SelAudios # <<>>
              THEN /\ ~IsNone(worst) /\ InSeq(Val(worst), SelAudios)
                   /\ \A i \in 1..Len(SelAudios) : Val(worst).bandwidth <= SelAudios[i].bandwidth
              ELSE IsNone(worst)

\* get_best over a 720p video of high bandwidth, a 1080p video of lower
\* bandwidth and an audio: the height decides.
C15_Witness ==
    /\ Made("get_best")
    /\ Len(sel_args.representations) = 3
    /\ \E i, j \in 1..Len(SelVideos) :
          /\ SelVideos[i].height < SelVideos[j].height
          /\ SelVideos[i].bandwidth > SelVideos[j].bandwidth
          /\ Val(Val(sel_out).value) = SelVideos[j]
    /\ SelAudios # <<>>

\* The language tag of a representation equals the preference, letter case
\* apart.
TagEquals(rep, lang) == Lower(rep.language) = Lower(lang)

SelPrefs ==
    IF IsNone(sel_args.preferred_audio_langs) THEN <<>>
    ELSE Val(sel_args.preferred_audio_langs)

\* The audio the claim's scan arrives at: the first preference that equals
\* the tag of some audio, and the first audio with that tag.
ScanResult ==
    LET hit(i) == \E k \in 1..Len(SelAudios) : TagEquals(SelAudios[k], SelPrefs[i])
        first == CHOOSE i \in 1..Len(SelPrefs) : hit(i) /\ \A j \in 1..(i - 1) : ~hit(j)
        rep == CHOOSE k \in 1..Len(SelAudios) :
                   /\ TagEquals(SelAudios[k], SelPrefs[first])
                   /\ \A j \in 1..(k - 1) : ~TagEquals(SelAudios[j], SelPrefs[first])
    IN  SelAudios[rep]

SomePreferenceMatches ==
    \E i \in 1..Len(SelPrefs) : \E k \in 1..Len(SelAudios) : TagEquals(SelAudios[k], SelPrefs[i])

\* C16: select_audio returns the first audio, in parse order, whose language
\* tag equals the first preference that any audio's tag equals, letter case
\* apart; the audio of highest bandwidth when no preference matches; None
\* when there is no audio.
C16_Original ==
    Made("select_audio") =>
        LET selected == Val(sel_out).value.selected_audio
        IN  IF SelAudios = <<>> THEN IsNone(selected)
            ELSE IF SomePreferenceMatches THEN selected = Some(ScanResult)
            ELSE /\ ~IsNone(selected) /\ InSeq(Val(selected), SelAudios)
                 /\ \A i \in 1..Len(SelAudios) :
                       SelAudios[i].bandwidth <= Val(selected).bandwidth

\* With no preference that reads "none" the selection is as C16 says.
SelectAudioByTag ==
    (\A i \in 1..Len(SelPrefs) : Lower(SelPrefs[i]) # <<"n", "o", "n", "e">>) => C16_Original

\* =================================================== claims: URLBuilder
BuildDone == url_pc = "done"

OtherPlaceholders == {"$RepresentationID$", "$Bandwidth$", "$Time$"}

HasTemplate(args) == ~IsNone(args.template) /\ Val(args.template) # <<>>

\* The template holds number placeholders and literal text only.
NumberOnly(args) ==
    /\ HasTemplate(args)
    /\ \A i \in 1..Len(Val(args.template)) : Val(args.template)[i] \notin OtherPlaceholders

NumberOf(args) == IF IsNone(args.number) THEN 0 ELSE Val(args.number)

\* How many decimal digits n is written with.
DigitsCount(n) == CHOOSE k \in 1..9 : n < 10 ^ k /\ (k = 1 \/ n >= 10 ^ (k - 1))

\* How many characters the piece at position i of the template must occupy
\* in the URL.
PieceLen(args, i) ==
    LET atom == Val(args.template)[i]
    IN  IF atom \in NumberPlaceholders
        THEN IF NumberWidth(atom) > DigitsCount(NumberOf(args))
             THEN NumberWidth(atom) ELSE DigitsCount(NumberOf(args))
        ELSE 1

RECURSIVE PiecesLen(_, _)
PiecesLen(args, upto) == IF upto = 0 THEN 0 ELSE PiecesLen(args, upto - 1) + PieceLen(args, upto)

\* The characters of the URL the piece at position i of the template became.
PieceOf(args, url, i) ==
    LET n == Len(Val(args.template))
        start == Len(url) - PiecesLen(args, n) + PiecesLen(args, i - 1)
    IN  SubSeq(url, start + 1, start + PieceLen(args, i))

IsDigits(s) == \A j \in 1..Len(s) : \E d \in 1..10 : s[j] = DigitChars[d]

\* C17: build_url puts, for every $Number$ and $Number%0Nd$ of the template,
\* the decimal digits of the number (0 when no number is given), with zeros
\* in front up to N characters and never cut; all other text of the template
\* stays as it is; an empty or absent template gives no URL.
C17_NumberFormatting ==
    BuildDone =>
        /\ IsNone(url_out) <=> ~HasTemplate(url_args)
        /\ NumberOnly(url_args) =>
              /\ Len(Val(url_out)) >= PiecesLen(url_args, Len(Val(url_args.template)))
              /\ \A i \in 1..Len(Val(url_args.template)) :
                    LET atom == Val(url_args.template)[i]
                        piece == PieceOf(url_args, Val(url_out), i)
                    IN  IF atom \in NumberPlaceholders
                        THEN /\ IsDigits(piece)
                             /\ ParseNat(piece) = NumberOf(url_args)
                             /\ Len(piece) >= NumberWidth(atom)
                             /\ Len(piece) > NumberWidth(atom) => Len(piece) = DigitsCount(NumberOf(url_args))
                        ELSE piece = <<atom>>

\* $Number%03d$ with 7 became 007, with 12345 it became 12345, and with no
\* number 000.
C17_Witness ==
    /\ BuildDone
    /\ url_args.template = Some(<<"seg_", "$Number%03d$", ".m4s">>)
    /\ url_args.base = <<"http://host", "/", "a", "/">>
    /\ \/ url_args.number = Some(7)
          /\ url_out = Some(<<"http://host", "/", "a", "/", "seg_", "0", "0", "7", ".m4s">>)
       \/ url_args.number = Some(12345)
          /\ url_out = Some(<<"http://host", "/", "a", "/", "seg_", "1", "2", "3", "4", "5", ".m4s">>)

Placeholders == NumberPlaceholders \cup OtherPlaceholders

\* Where the query or the fragment of a template starts: the first '?' or
\* '#', or one past the end when it has neither.
TailStart(t) ==
    IF \E i \in 1..Len(t) : t[i] \in {"?", "#"}
    THEN CHOOSE i \in 1..Len(t) :
            /\ t[i] \in {"?", "#"}
            /\ \A j \in 1..(i - 1) : t[j] \notin {"?", "#"}
    ELSE Len(t) + 1

PathOf(t) == SubSeq(t, 1, TailStart(t) - 1)

QueryAndFragment(t) == SubSeq(t, TailStart(t), Len(t))

EndsWith(s, tail) ==
    Len(s) >= Len(tail) /\ SubSeq(s, Len(s) - Len(tail) + 1, Len(s)) = tail

\* C18: the URL build_url returns ends with the query and the fragment of
\* the template exactly as written, and for a template without placeholders
\* it is the path of the template joined against the base followed by that
\* query and fragment.
C18_QueryAndFragmentKept ==
    (BuildDone /\ HasTemplate(url_args)) =>
        LET t == Val(url_args.template)
            tail == QueryAndFragment(t)
        IN  /\ (\A i \in 1..Len(tail) : tail[i] \notin Placeholders) =>
                  EndsWith(Val(url_out), tail)
            /\ (\A i \in 1..Len(t) : t[i] \notin Placeholders) =>
                  Val(url_out) = UrlJoin(url_args.base, PathOf(t)) \o tail

\* seg.mp4?token=abc#frag against a base that names a file; a template that
\* is a query and a fragment only; a '#' before a '?'.
C18_Witness ==
    /\ BuildDone
    /\ url_args.base = <<"http://cdn", "/", "x", "/", "y">>
    /\ \/ /\ url_args.template = Some(<<"seg.mp4", "?", "token=abc", "#", "frag">>)
          /\ url_out = Some(<<"http://cdn", "/", "x", "/", "seg.mp4", "?", "token=abc", "#", "frag">>)
       \/ /\ url_args.template = Some(<<"?", "token=abc", "#", "frag">>)
          /\ url_out = Some(<<"http://cdn", "/", "x", "/", "y", "?", "token=abc", "#", "frag">>)
       \/ /\ url_args.template = Some(<<"a", "#", "b", "?", "c">>)
          /\ url_out = Some(<<"http://cdn", "/", "x", "/", "a", "#", "b", "?", "c">>)

\* ============================================ claims: the licence request
\* HTTP header names do not depend on letter case: the spellings of
\* Content-Type the callers use, brought to one.
HeaderName(h) == IF h \in {"Content-Type", "content-type"} THEN "content-type" ELSE h

ContentTypeHeaders(hs) == {h \in DOMAIN hs : HeaderName(h) = "content-type"}

GivenHeaders(p) == IF IsNone(call_args[p].headers) THEN <<>> ELSE Val(call_args[p].headers)

CarriesGiven(p, sent) ==
    \A h \in DOMAIN GivenHeaders(p) : h \in DOMAIN sent /\ sent[h] = GivenHeaders(p)[h]

DefaultAdded(p, sent) ==
    /\ DOMAIN sent = DOMAIN GivenHeaders(p) \cup {"Content-Type"}
    /\ sent["Content-Type"] = <<"application/octet-stream">>

\* C19: the licence POST carries every header of the caller unchanged; the
\* default Content-Type application/octet-stream is added exactly when the
\* caller gave no Content-Type header under any spelling of the name, so no
\* request carries two Content-Type headers.
C19_Original ==
    \A p \in Calls : \A i \in 1..Len(posted[p]) :
        LET sent == posted[p][i].headers
        IN  /\ CarriesGiven(p, sent)
            /\ IF ContentTypeHeaders(GivenHeaders(p)) = {}
               THEN DefaultAdded(p, sent)
               ELSE DOMAIN sent = DOMAIN GivenHeaders(p)
            /\ Cardinality(ContentTypeHeaders(sent)) <= 1

\* What the request does carry: the caller's headers unchanged, and the
\* default exactly when no header of the caller is spelled 'Content-Type'.
HeadersByExactName ==
    \A p \in Calls : \A i \in 1..Len(posted[p]) :
        LET sent == posted[p][i].headers
        IN  /\ CarriesGiven(p, sent)
            /\ IF "Content-Type" \notin DOMAIN GivenHeaders(p)
               THEN DefaultAdded(p, sent)
               ELSE DOMAIN sent = DOMAIN GivenHeaders(p)

\* The response call p was answered with, when its POST was answered with
\* status 200.
Answered200(p) ==
    /\ posted[p] # <<>>
    /\ ~IsNone(server[p].response)
    /\ Val(server[p].response).status_code = 200

ParsedLicense(p) == CountBy(p, "parse_license") > 0

\* C20: after a 200 response the licence bytes are the base64 decoding of
\* the license field of a JSON body, or the raw body when the Content-Type
\* is not JSON; an unparsable JSON body, a missing license field and empty
\* licence bytes make the call return None, and nothing of them reaches
\* parse_license.
C20_LicenseBytes ==
    \A p \in Calls : Answered200(p) =>
        LET expected == LicenseIn(Val(server[p].response))
        IN  IF IsNone(expected) \/ Val(expected) = <<>>
            THEN /\ ~ParsedLicense(p)
                 /\ license_bytes[p] = <<>>
                 /\ c_pc[p] \notin {"parse", "keys"}
                 /\ HasReturned(p) => IsNone(ReturnedValue(p))
            ELSE license_bytes[p] = Val(expected)

\* A JSON answer whose license field is CAI= was decoded to the bytes 8, 2
\* and parsed; a JSON answer with an empty license field returned None
\* unparsed.
C20_Witness ==
    \E p \in Calls :
        /\ Answered200(p)
        /\ HasReturned(p)
        /\ Contains(ContentTypeOf(Val(server[p].response)), "application/json")
        /\ ~IsNone(Val(server[p].response).json)
        /\ "license" \in DOMAIN Val(Val(server[p].response).json)
        /\ \/ /\ Val(Val(server[p].response).json)["license"] = <<"C", "A", "I", "=">>
              /\ license_bytes[p] = <<8, 2>>
              /\ ParsedLicense(p)
           \/ /\ Val(Val(server[p].response).json)["license"] = <<>>
              /\ ~ParsedLicense(p)
              /\ IsNone(ReturnedValue(p))

\* The response call p was answered with, when its POST was answered with a
\* status other than 200.
AnsweredNot200(p) ==
    /\ posted[p] # <<>>
    /\ ~IsNone(server[p].response)
    /\ Val(server[p].response).status_code # 200

\* The dict with the URL, the headers sent, the session identifier and the
\* PSSH is among what call p printed.
ContextEmitted(p) ==
    \E i \in 1..Len(diag[p]) :
        /\ ~IsNone(diag[p][i].context)
        /\ Val(diag[p][i].context).url = call_args[p].license_url
        /\ Val(diag[p][i].context).headers = posted[p][1].headers
        /\ Val(diag[p][i].context).pssh = call_args[p].pssh
        /\ \E s \in SessionIds :
              /\ sessions[s].cdm = p
              /\ Val(diag[p][i].context).session_id = BytesHex(<<s>>)

\* C21: a licence response with a status other than 200, other 2xx codes
\* included, makes the call return None with the context printed, and its
\* body never reaches the session; parse_license follows a 200 only.
C21_Only200Accepted ==
    \A p \in Calls :
        /\ AnsweredNot200(p) =>
              /\ ~ParsedLicense(p)
              /\ license_bytes[p] = <<>>
              /\ HasDiag(p, "License error")
              /\ ContextEmitted(p)
              /\ HasReturned(p) => IsNone(ReturnedValue(p))
        /\ ParsedLicense(p) => Answered200(p)

\* A 201 answer with licence bytes in its body, and the call returned None
\* without parsing them.
C21_Witness ==
    \E p \in Calls :
        /\ HasReturned(p)
        /\ AnsweredNot200(p)
        /\ Val(server[p].response).status_code = 201
        /\ Val(server[p].response).content = RawLicense
        /\ ContextEmitted(p)
        /\ IsNone(ReturnedValue(p))

\* The licence exchange of call p went through: nothing before the close
\* failed and the licence held a CONTENT key.
ExtractionSucceeded(p) ==
    /\ faults[p] \subseteq {"close"}
    /\ Answered200(p)
    /\ ~IsNone(LicenseIn(Val(server[p].response)))
    /\ Val(LicenseIn(Val(server[p].response))) # <<>>
    /\ EnumeratedContent(p) # <<>>

\* C26: a call whose licence exchange succeeded and gave at least one
\* CONTENT key returns those keys, also when closing the session fails.
C26_Original ==
    \A p \in Calls :
        (HasReturned(p) /\ ExtractionSucceeded(p)) =>
            /\ ~IsNone(ReturnedValue(p))
            /\ Len(Val(ReturnedValue(p))) = Len(EnumeratedContent(p))

\* What holds: the keys are returned when the close succeeds as well, and
\* None is returned when it fails.
KeysReturnedUnlessCloseFails ==
    \A p \in Calls :
        (HasReturned(p) /\ ExtractionSucceeded(p)) =>
            IF "close" \in faults[p]
            THEN IsNone(ReturnedValue(p)) /\ HasDiag(p, "CDM error")
            ELSE /\ ~IsNone(ReturnedValue(p))
                 /\ Len(Val(ReturnedValue(p))) = Len(EnumeratedContent(p))

\* ------------------------------------------ synthetic range: the claims
\* startNumber of a template, 1 when it has none.
StartNumberOf(tmpl) ==
    IF IsNone(Attr(tmpl.attrs, "startNumber")) THEN 1
    ELSE ParseNat(Val(Attr(tmpl.attrs, "startNumber")))

HasNumberMedia(tmpl) == Truthy(MediaOf(tmpl)) /\ ContainsNumber(Val(MediaOf(tmpl)))

\* The URLs of the k-th Representation produced are those of the numbers
\* first, first+1, ..., first+SyntheticCount-1, in that order.
IsSyntheticRange(k, first) ==
    /\ Len(representations[k].segment_urls) = SyntheticCount
    /\ \A i \in 1..SyntheticCount :
          representations[k].segment_urls[i] =
              Val(BuildUrl(InitialBaseUrl(mpd_url, manifest), MediaOf(Sources[k]),
                           representations[k].id, Some(first + i - 1), None,
                           IF representations[k].bandwidth = 0 THEN None
                           ELSE Some(representations[k].bandwidth)))

\* C22: the synthetic range is used only when the chosen SegmentTemplate has
\* no SegmentTimeline at all: then a media template containing $Number gives
\* the 100 URLs of startNumber, ..., startNumber+99 (startNumber 1 when not
\* given), and a SegmentTimeline that is present never gives 100 URLs.
C22_Original ==
    p_pc = "done" =>
        /\ Len(representations) = Len(Sources)
        /\ \A k \in 1..Len(Sources) :
              IF IsNone(Sources[k].timeline)
              THEN HasNumberMedia(Sources[k]) => IsSyntheticRange(k, StartNumberOf(Sources[k]))
              ELSE Len(representations[k].segment_urls) # SyntheticCount

\* What holds: the range is used exactly when the decoder returned no number,
\* with or without a SegmentTimeline element, and the media template contains
\* $Number.
SyntheticRangeWhenNothingDecoded ==
    p_pc = "done" =>
        /\ Len(representations) = Len(Sources)
        /\ \A k \in 1..Len(Sources) :
              IF Decoded(Sources[k]) = 0 /\ HasNumberMedia(Sources[k])
              THEN IsSyntheticRange(k, StartNumberOf(Sources[k]))
              ELSE Len(representations[k].segment_urls) # SyntheticCount

\* ------------------------------------------------ malformed XML: the claim
\* C23: a response whose body is malformed XML is fatal at once: the parse
\* error reaches the caller of parse() and no GET follows it.
C23_Original ==
    \A i \in 1..Len(errors) :
        errors[i].kind = "xml" =>
            /\ gets = i
            /\ p_pc = "raised"
            /\ raised = Some(errors[i])

\* ------------------------------------------- repeated parse(): the claim
\* C24: after every successful parse() on the same instance against the
\* unchanged manifest, representations holds each Representation of the
\* manifest once, the same list the call before left.
C24_Original ==
    p_pc = "done" =>
        /\ Len(representations) = Len(Sources)
        /\ reps_before # <<>> => representations = reps_before

\* What holds: each successful parse() appends the Representations of the
\* manifest to what the instance held before.
RepresentationsAccumulate ==
    p_pc = "done" =>
        /\ Len(representations) = Len(reps_before) + Len(Sources)
        /\ SubSeq(representations, 1, Len(reps_before)) = reps_before

\* --------------------------------------- leftover placeholders: the claim
HasPlaceholder(url) == \E i \in 1..Len(url) : url[i] \in Placeholders

UrlsOf(rep) ==
    rep.segment_urls \o (IF IsNone(rep.init_url) THEN <<>> ELSE <<Val(rep.init_url)>>)

\* C25: no init_url and no URL of segment_urls holds a $Number$,
\* $Number%0Nd$, $Time$, $RepresentationID$ or $Bandwidth$ that was not
\* substituted, whatever the template holds, with or without SegmentTimeline,
\* id and bandwidth.
C25_Original ==
    p_pc = "done" =>
        \A k \in 1..Len(representations) :
            \A i \in 1..Len(UrlsOf(representations[k])) :
                ~HasPlaceholder(UrlsOf(representations[k])[i])

\* What holds: number placeholders are always substituted; $RepresentationID$
\* stays only when the Representation has no id, and $Time$ only in URLs
\* built without a decoded time.
PlaceholdersLeftWithoutValue ==
    p_pc = "done" =>
        /\ Len(representations) = Len(Sources)
        /\ \A k \in 1..Len(representations) :
              \A i \in 1..Len(UrlsOf(representations[k])) :
                  LET url == UrlsOf(representations[k])[i]
                  IN  /\ \A j \in 1..Len(url) : url[j] \notin NumberPlaceholders
                      /\ Contains(url, "$RepresentationID$") => IsNone(representations[k].id)
                      /\ Contains(url, "$Time$") => Decoded(Sources[k]) = 0

\* ----------------------------------------------- site registry: the claim
\* The get_api call made last, when it asked for the name registered last.
AskedForLast ==
    /\ ~IsNone(api_out)
    /\ ~IsNone(api_last)
    /\ Val(api_out).site_name = Val(api_last).site_name

\* C27: after register_api(name, cls) with cls a subclass of
\* BaseStreamingAPI, get_api(name) returns an instance of cls, names with
\* upper-case letters or underscores included; get_api raises ValueError only
\* for names that were never registered.
C27_Original ==
    /\ AskedForLast =>
          Val(api_out).outcome = [kind |-> "instance", cls |-> Some(Val(api_last).api_class.name)]
    /\ (~IsNone(api_out) /\ Val(api_out).outcome.kind = "ValueError") =>
          Val(api_out).site_name \notin api_names

\* What holds: a name without underscore, in whatever letter case, gives an
\* instance of the class registered last under it when that class can be
\* instantiated.
PlainNamesResolve ==
    (AskedForLast /\ ~Contains(Val(api_last).site_name, "_")
                  /\ ~Val(api_last).api_class.abstract) =>
        Val(api_out).outcome = [kind |-> "instance", cls |-> Some(Val(api_last).api_class.name)]
====
